---- MODULE Spec2Model ----
(***************************************************************************)
(* Overwatch-mcp: the TTL cache (cache.py), the cache manager, and the     *)
(* tool facades that validate, cache and forward requests to Graylog,      *)
(* Prometheus and InfluxDB.                                                *)
(*                                                                         *)
(* Time is counted in whole seconds.  Strings the code inspects character  *)
(* by character (cache keys, time arguments, Flux text) are sequences of   *)
(* one-character strings, so prefix and substring tests are computed.      *)
(*                                                                         *)
(* cache.py wraps cachetools.TTLCache.  The operators below give that      *)
(* class's behaviour: one TTL for the whole cache, an entry is visible     *)
(* while timer() < expires, expired entries are physically removed by the  *)
(* next __setitem__/clear, and the eviction order is the order of the last *)
(* __setitem__ or successful __getitem__ of each key.                      *)
(***************************************************************************)
EXTENDS Integers, Sequences, FiniteSets, TLC

VARIABLES
    now,        \* the clock (time.monotonic / datetime.now), in seconds
    cache,      \* SpecCache: the Cache instance under test
    last,       \* the last operation applied and what it returned
    live,       \* history: per key, the last set not undone by delete/clear/eviction
    usedAt,     \* history: per key, the index of its last set or successful get
    opCount,    \* number of operations applied so far
    mgr,        \* SpecManager: the CacheManager (default_ttl, ttl_overrides, _caches)
    heap,       \* the Cache objects the manager has created, by object identity
    returned,   \* history: per tool name, the identities get_cache has returned
    mlive,      \* history: per tool name and key, the last set not undone
    promCache,  \* Spec: the cache the server hands to the Prometheus tools
    glCache,    \* Spec: the cache the server hands to the Graylog tools
    hist,       \* history: per catalog / range request, the last payload fetched
    allowed,    \* SpecInflux: config.allowed_buckets of the InfluxDB client
    sent,       \* the requests the backends have received, in order
    req,        \* SpecRetry: the request a client's get/post call is making
    server,     \* SpecServer: the clients and datasource_available of the server
    pending     \* SpecOverlap: the tool invocations awaiting their backend

cacheVars == <<cache, live, usedAt>>
mgrVars == <<mgr, heap, returned, mlive>>
toolVars == <<promCache, glCache, hist>>
backendVars == <<allowed, sent>>
serverVars == <<server, pending>>
vars == <<now, last, opCount, cacheVars, mgrVars, toolVars, backendVars, req, serverVars>>

AllButNow == <<last, opCount, cacheVars, mgrVars, toolVars, backendVars, req, serverVars>>

\* what the operations of one component leave alone
OtherThanCache == <<mgrVars, toolVars, backendVars, req, serverVars>>
OtherThanManager == <<cacheVars, toolVars, backendVars, req, serverVars>>
OtherThanTools == <<cacheVars, mgrVars, backendVars, req, serverVars>>
OtherThanBackends == <<cacheVars, mgrVars, toolVars, req, serverVars>>

----------------------------------------------------------------------------
(* Bounds of the model *)

MaxTime == 3
MaxOps == 4
TestMaxSize == 2
TestDefaultTTL == 2
TestOverrideTTL == 3
MgrMaxOps == 5
MgrMaxTime == 2
MgrDefaultTTL == 1
MgrOverrideTTL == 2
TimeBase == 4000
ToolMaxCalls == 2
ToolMaxTime == 2
ToolTTL == 2
PromMaxRangeHours == 1
InfluxMaxCalls == 1
RangeMaxCalls == 1
RangeMaxHours == 1
TimesMaxCalls == 1
ListingMaxCalls == 2
LargeMaxCalls == 1
NameLength == 9
RetryMaxCalls == 2
CsvMaxCalls == 1
SearchMaxCalls == 1
GuardMaxCalls == 2
GuardMaxTime == 1
GuardMaxHours == 1
GuardTTL == 1
ServerMaxCalls == 2
OverlapCalls == 2
OverlapMaxTime == 1
OverlapTTL == 2
MaxBodyLength == 4

----------------------------------------------------------------------------
(* Program constants *)

DefaultMaxSize == 1000
GraylogToleranceSeconds == 36
MaxCatalogLimit == 500
GraylogDefaultResults == 100
GraylogMaxResults == 1000
StepSamples == 250
MaxRetries == 3
PreviewLength == 500

----------------------------------------------------------------------------
(* Strings *)

StartsWith(s, prefix) ==
    /\ Len(prefix) <= Len(s)
    /\ SubSeq(s, 1, Len(prefix)) = prefix

\* Python values held in caches and returned by calls are records with a kind
None == [kind |-> "None"]
StrValue(text) == [kind |-> "str", text |-> text]
Absent == [at |-> -1, val |-> None]

----------------------------------------------------------------------------
(* cache.py: class Cache *)

EmptyStore == [k \in {} |-> [value |-> None, expires |-> 0]]

NewCache(default_ttl, maxsize) ==
    [default_ttl |-> default_ttl,
     maxsize |-> maxsize,
     ttl_overrides |-> << >>,
     store |-> EmptyStore,
     links |-> << >>]

Stored(c) == DOMAIN c.store

RemoveFromSeq(s, k) == SelectSeq(s, LAMBDA x : x # k)

DropKeys(c, ks) ==
    [c EXCEPT !.store = [k \in (DOMAIN c.store) \ ks |-> c.store[k]],
              !.links = SelectSeq(c.links, LAMBDA x : x \notin ks)]

\* TTLCache.expire: drop every entry with not (time < expires)
Expire(c, t) ==
    DropKeys(c, {k \in DOMAIN c.store : ~(t < c.store[k].expires)})

\* TTLCache.__contains__ (Cache.has): no reordering
ContainsOffByOne(c, k, t) ==
    /\ k \in DOMAIN c.store
    /\ t <= c.store[k].expires

Contains(c, k, t) ==
    /\ k \in DOMAIN c.store
    /\ t < c.store[k].expires

\* Cache.set_ttl_override: a dict assignment; a known prefix keeps its place
IndexOfPrefix(ovr, prefix) ==
    LET hits == {i \in 1..Len(ovr) : ovr[i][1] = prefix}
    IN IF hits = {} THEN 0 ELSE CHOOSE i \in hits : TRUE

SetTtlOverride(c, prefix, ttl) ==
    LET i == IndexOfPrefix(c.ttl_overrides, prefix)
    IN IF i = 0
       THEN [c EXCEPT !.ttl_overrides = Append(@, <<prefix, ttl>>)]
       ELSE [c EXCEPT !.ttl_overrides[i] = <<prefix, ttl>>]

\* Cache._get_ttl: first registered prefix that matches, else default_ttl
GetTTL(c, key) ==
    LET hits == {i \in 1..Len(c.ttl_overrides) : StartsWith(key, c.ttl_overrides[i][1])}
    IN IF hits = {} THEN c.default_ttl
       ELSE c.ttl_overrides[CHOOSE i \in hits : \A j \in hits : i <= j][2]

\* The TTL Cache.set gives an entry: self._cache[key] = value on a
\* TTLCache(ttl=default_ttl); _get_ttl is not called.
EntryTTL(c, key) == c.default_ttl

\* Cache.get: TTLCache.get -> key in self, then self[key] moves the key to
\* the most-recently-used end
GetValue(c, k, t) == IF Contains(c, k, t) THEN c.store[k].value ELSE None

GetNoTouch(c, k, t) == c

GetTouch(c, k, t) ==
    IF Contains(c, k, t)
    THEN [c EXCEPT !.links = Append(RemoveFromSeq(@, k), k)]
    ELSE c

\* TTLCache.popitem: the least recently used of the unexpired entries
PopItem(c, t) ==
    LET c1 == Expire(c, t)
    IN IF c1.links = << >> THEN c1 ELSE DropKeys(c1, {Head(c1.links)})

RECURSIVE MakeRoom(_, _)
MakeRoom(c, t) ==
    IF Cardinality(DOMAIN c.store) + 1 > c.maxsize /\ c.links # << >>
    THEN MakeRoom(PopItem(c, t), t)
    ELSE c

\* Cache.set: TTLCache.__setitem__ (expire, make room for a new key, store,
\* move to the most-recently-used end, expires = time + ttl)
SetValue(c, k, v, t) ==
    LET c1 == Expire(c, t)
        c2 == IF k \notin DOMAIN c1.store THEN MakeRoom(c1, t) ELSE c1
        entry == [value |-> v, expires |-> t + EntryTTL(c2, k)]
    IN [c2 EXCEPT
          !.store = [x \in (DOMAIN c2.store) \cup {k} |->
                        IF x = k THEN entry ELSE c2.store[x]],
          !.links = Append(RemoveFromSeq(@, k), k)]

\* Cache.delete: del self._cache[key], KeyError swallowed
DeleteValue(c, k) == DropKeys(c, {k})

\* Cache.clear
ClearValues(c) == DropKeys(c, DOMAIN c.store)

\* Cache.__len__: the unexpired entries
Unexpired(c, t) == {k \in DOMAIN c.store : t < c.store[k].expires}

----------------------------------------------------------------------------
(* SpecCache: one Cache driven by set/get/has/delete/clear/set_ttl_override *)
(* while the clock advances.  live and usedAt record the history of calls,  *)
(* independently of the cache's own bookkeeping.                            *)

CacheKeys == {<<"a">>, <<"a", "b">>, <<"c">>}
CacheValues == {StrValue("v1"), StrValue("v2")}
OverridePrefixes == {<<"a">>, <<"a", "b">>}
OverrideTTLs == {1, TestOverrideTTL}

NoOp == [op |-> "none", key |-> << >>, ret |-> None, held |-> {}, lru |-> << >>,
         ttl |-> 0, lruSetAt |-> -1]

\* keys whose recorded set is still within the cache's TTL at time t
Held(t) == {k \in CacheKeys : live[k] # Absent /\ t < live[k].at + cache.default_ttl}

\* among the held keys, the one whose last set or get is oldest
LeastRecent(t) ==
    IF Held(t) = {} THEN << >>
    ELSE CHOOSE k \in Held(t) : \A j \in Held(t) : usedAt[k] <= usedAt[j]

\* the manager is not part of this specification
ManagerIdle ==
    /\ mgr = [default_ttl |-> 0, ttl_overrides |-> EmptyStore, caches |-> EmptyStore]
    /\ heap = << >>
    /\ returned = EmptyStore
    /\ mlive = EmptyStore

\* no get/post call is being made
NoHttpCall == [phase |-> "idle", method |-> "none", max_retries |-> 0, retry_count |-> 0,
               outcomes |-> << >>, slept |-> << >>, result |-> "none"]

\* no server has been created and no invocation is under way
NoServer == [phase |-> "none"]

ServerIdle ==
    /\ server = NoServer
    /\ pending = << >>

\* no backend has been configured or called
BackendsIdle ==
    /\ allowed = << >>
    /\ sent = << >>
    /\ req = NoHttpCall

\* the tools are not part of this specification
ToolsIdle ==
    /\ promCache = NewCache(0, 0)
    /\ glCache = NewCache(0, 0)
    /\ hist = EmptyStore
    /\ BackendsIdle

CacheInit ==
    /\ cache = NewCache(TestDefaultTTL, TestMaxSize)
    /\ last = NoOp
    /\ live = [k \in CacheKeys |-> Absent]
    /\ usedAt = [k \in CacheKeys |-> 0]
    /\ opCount = 0

InitCache ==
    /\ now = 0
    /\ CacheInit
    /\ ManagerIdle
    /\ ToolsIdle
    /\ ServerIdle

Tick ==
    /\ now < MaxTime
    /\ now' = now + 1
    /\ UNCHANGED AllButNow

DoSetTtlOverride ==
    \E p \in OverridePrefixes, ttl \in OverrideTTLs :
        /\ opCount < MaxOps
        /\ opCount' = opCount + 1
        /\ cache' = SetTtlOverride(cache, p, ttl)
        /\ last' = [NoOp EXCEPT !.op = "set_ttl_override", !.key = p]
        /\ UNCHANGED <<now, live, usedAt>>
        /\ UNCHANGED OtherThanCache

DoSet ==
    \E k \in CacheKeys, v \in CacheValues :
        /\ opCount < MaxOps
        /\ opCount' = opCount + 1
        /\ cache' = SetValue(cache, k, v, now)
        /\ last' = [op |-> "set", key |-> k, ret |-> None,
                    held |-> Held(now), lru |-> LeastRecent(now),
                    ttl |-> GetTTL(cache, k),
                    lruSetAt |-> IF Held(now) = {} THEN -1
                                 ELSE live[LeastRecent(now)].at]
        /\ live' = [x \in CacheKeys |->
                      IF x = k THEN [at |-> now, val |-> v]
                      ELSE IF /\ k \notin Held(now)
                              /\ Cardinality(Held(now)) >= cache.maxsize
                              /\ x = LeastRecent(now)
                           THEN Absent
                           ELSE live[x]]
        /\ usedAt' = [usedAt EXCEPT ![k] = opCount + 1]
        /\ UNCHANGED now
        /\ UNCHANGED OtherThanCache

DoGet ==
    \E k \in CacheKeys :
        /\ opCount < MaxOps
        /\ opCount' = opCount + 1
        /\ cache' = GetTouch(cache, k, now)
        /\ last' = [NoOp EXCEPT !.op = "get", !.key = k, !.ret = GetValue(cache, k, now)]
        /\ usedAt' = IF k \in Held(now) THEN [usedAt EXCEPT ![k] = opCount + 1]
                     ELSE usedAt
        /\ UNCHANGED <<now, live>>
        /\ UNCHANGED OtherThanCache

DoHas ==
    \E k \in CacheKeys :
        /\ opCount < MaxOps
        /\ opCount' = opCount + 1
        /\ last' = [NoOp EXCEPT !.op = "has", !.key = k,
                    !.ret = IF Contains(cache, k, now) THEN "True" ELSE "False"]
        /\ UNCHANGED <<now, cache, live, usedAt>>
        /\ UNCHANGED OtherThanCache

DoDelete ==
    \E k \in CacheKeys :
        /\ opCount < MaxOps
        /\ opCount' = opCount + 1
        /\ cache' = DeleteValue(cache, k)
        /\ last' = [NoOp EXCEPT !.op = "delete", !.key = k]
        /\ live' = [live EXCEPT ![k] = Absent]
        /\ UNCHANGED <<now, usedAt>>
        /\ UNCHANGED OtherThanCache

DoClear ==
    /\ opCount < MaxOps
    /\ opCount' = opCount + 1
    /\ cache' = ClearValues(cache)
    /\ last' = [NoOp EXCEPT !.op = "clear"]
    /\ live' = [k \in CacheKeys |-> Absent]
    /\ UNCHANGED <<now, usedAt>>
    /\ UNCHANGED OtherThanCache

NextCache ==
    \/ Tick
    \/ DoSetTtlOverride
    \/ DoSet
    \/ DoGet
    \/ DoHas
    \/ DoDelete
    \/ DoClear

SpecCache == InitCache /\ [][NextCache]_vars

----------------------------------------------------------------------------
(* Claims about Cache (SpecCache) *)

\* C2: an entry recorded by set(k, v) and not since deleted, cleared or
\* evicted is returned by get(k) and reported by has(k) at every instant
\* before set time + TTL, whatever was done to other keys; from set time +
\* TTL on, get(k) returns None and has(k) is false, with or without a
\* delete or a sweep.
CacheRoundTrip ==
    \A k \in CacheKeys :
        live[k] # Absent =>
            IF now < live[k].at + cache.default_ttl
            THEN GetValue(cache, k, now) = live[k].val /\ Contains(cache, k, now)
            ELSE GetValue(cache, k, now) = None /\ ~Contains(cache, k, now)

\* an expired entry, never deleted nor swept, and get has just returned None
CacheRoundTripWitness ==
    /\ last.op = "get"
    /\ last.ret = None
    /\ live[last.key] # Absent
    /\ last.key \in Stored(cache)
    /\ now >= live[last.key].at + cache.default_ttl
    /\ \E j \in CacheKeys \ {last.key} : live[j] # Absent /\ GetValue(cache, j, now) = live[j].val

\* C3: the entry stored by the last set(key, v) is visible exactly until
\* set time + ttl, ttl being the TTL of the first registered override whose
\* prefix starts key, and default_ttl when none matches.
CacheTtlOverrideApplied ==
    (last.op = "set" /\ live[last.key] # Absent) =>
        (Contains(cache, last.key, now) <=> now < live[last.key].at + last.ttl)

\* C4: the cache never stores more than maxsize entries, and a set of a new
\* key into a cache holding maxsize unexpired entries evicts exactly the
\* least recently used one and stores the new key.
CacheBoundedLRU ==
    /\ Cardinality(Stored(cache)) <= cache.maxsize
    /\ (/\ last.op = "set"
        /\ last.key \notin last.held
        /\ Cardinality(last.held) = cache.maxsize)
       => Stored(cache) = (last.held \ {last.lru}) \cup {last.key}

\* a set into a full cache whose victim was set after a key that survives
\* (a get had refreshed the survivor)
CacheBoundedLRUWitness ==
    /\ last.op = "set"
    /\ last.key \notin last.held
    /\ Cardinality(last.held) = cache.maxsize
    /\ last.lru \notin Stored(cache)
    /\ last.key \in Stored(cache)
    /\ \E j \in last.held \ {last.lru} :
          /\ j \in Stored(cache)
          /\ live[j].at < last.lruSetAt

----------------------------------------------------------------------------
(* cache.py: class CacheManager *)

\* the identity given to the next Cache object created
NewId(h) == Len(h) + 1

ExpectedTTL(m, name) ==
    IF name \in DOMAIN m.ttl_overrides THEN m.ttl_overrides[name] ELSE m.default_ttl

\* CacheManager.get_cache: <<manager after, heap after, identity returned>>
GetCacheAlwaysNew(m, h, name) ==
    <<[m EXCEPT !.caches = [n \in (DOMAIN m.caches) \cup {name} |->
                               IF n = name THEN NewId(h) ELSE m.caches[n]]],
      Append(h, NewCache(ExpectedTTL(m, name), DefaultMaxSize)),
      NewId(h)>>

GetCache(m, h, name) ==
    IF name \notin DOMAIN m.caches
    THEN <<[m EXCEPT !.caches = [n \in (DOMAIN m.caches) \cup {name} |->
                                    IF n = name THEN NewId(h) ELSE m.caches[n]]],
           Append(h, NewCache(ExpectedTTL(m, name), DefaultMaxSize)),
           NewId(h)>>
    ELSE <<m, h, m.caches[name]>>

\* CacheManager.clear_all: clear every cache the manager holds
ClearAll(m, h) ==
    [i \in DOMAIN h |->
        IF \E n \in DOMAIN m.caches : m.caches[n] = i THEN ClearValues(h[i]) ELSE h[i]]

----------------------------------------------------------------------------
(* SpecManager: a CacheManager whose callers keep the caches get_cache      *)
(* returned and set/get/delete on them while the clock advances.            *)

ToolNames == {"prometheus_metrics", "tool1"}
MgrKeys == {<<"k">>, <<"j">>}
MgrOverrides ==
    {EmptyStore, [n \in {"prometheus_metrics"} |-> MgrOverrideTTL]}

CacheIdle ==
    /\ cache = NewCache(0, 0)
    /\ live = EmptyStore
    /\ usedAt = EmptyStore

InitManager ==
    /\ now = 0
    /\ last = NoOp
    /\ opCount = 0
    /\ \E o \in MgrOverrides :
          mgr = [default_ttl |-> MgrDefaultTTL, ttl_overrides |-> o, caches |-> EmptyStore]
    /\ heap = << >>
    /\ returned = [n \in ToolNames |-> {}]
    /\ mlive = [n \in ToolNames |-> [k \in MgrKeys |-> Absent]]
    /\ CacheIdle
    /\ ToolsIdle
    /\ ServerIdle

MgrTick ==
    /\ now < MgrMaxTime
    /\ now' = now + 1
    /\ UNCHANGED AllButNow

MgrGetCache ==
    \E name \in ToolNames :
        LET r == GetCache(mgr, heap, name)
        IN /\ opCount < MgrMaxOps
           /\ opCount' = opCount + 1
           /\ mgr' = r[1]
           /\ heap' = r[2]
           /\ returned' = [returned EXCEPT ![name] = @ \cup {r[3]}]
           /\ last' = [NoOp EXCEPT !.op = "get_cache", !.key = name, !.ret = r[3]]
           /\ UNCHANGED <<now, mlive>>
           /\ UNCHANGED OtherThanManager

MgrClearAll ==
    /\ opCount < MgrMaxOps
    /\ opCount' = opCount + 1
    /\ heap' = ClearAll(mgr, heap)
    /\ mlive' = [n \in ToolNames |-> [k \in MgrKeys |-> Absent]]
    /\ last' = [NoOp EXCEPT !.op = "clear_all"]
    /\ UNCHANGED <<now, mgr, returned>>
    /\ UNCHANGED OtherThanManager

\* a caller uses the cache it was given for name
MgrCacheSet ==
    \E name \in ToolNames, k \in MgrKeys, v \in CacheValues :
        \E id \in returned[name] :
            /\ opCount < MgrMaxOps
            /\ opCount' = opCount + 1
            /\ heap' = [heap EXCEPT ![id] = SetValue(@, k, v, now)]
            /\ mlive' = [mlive EXCEPT ![name][k] = [at |-> now, val |-> v]]
            /\ last' = [NoOp EXCEPT !.op = "set", !.key = k]
            /\ UNCHANGED <<now, mgr, returned>>
            /\ UNCHANGED OtherThanManager

MgrCacheGet ==
    \E name \in ToolNames, k \in MgrKeys :
        \E id \in returned[name] :
            /\ opCount < MgrMaxOps
            /\ opCount' = opCount + 1
            /\ heap' = [heap EXCEPT ![id] = GetTouch(@, k, now)]
            /\ last' = [NoOp EXCEPT !.op = "get", !.key = k,
                                    !.ret = GetValue(heap[id], k, now)]
            /\ UNCHANGED <<now, mgr, returned, mlive>>
            /\ UNCHANGED OtherThanManager

MgrCacheDelete ==
    \E name \in ToolNames, k \in MgrKeys :
        \E id \in returned[name] :
            /\ opCount < MgrMaxOps
            /\ opCount' = opCount + 1
            /\ heap' = [heap EXCEPT ![id] = DeleteValue(@, k)]
            /\ mlive' = [mlive EXCEPT ![name][k] = Absent]
            /\ last' = [NoOp EXCEPT !.op = "delete", !.key = k]
            /\ UNCHANGED <<now, mgr, returned>>
            /\ UNCHANGED OtherThanManager

NextManager ==
    \/ MgrTick
    \/ MgrGetCache
    \/ MgrClearAll
    \/ MgrCacheSet
    \/ MgrCacheGet
    \/ MgrCacheDelete

SpecManager == InitManager /\ [][NextManager]_vars

----------------------------------------------------------------------------
(* Claims about CacheManager (SpecManager) *)

\* what get(k) returns on the cache the manager holds for name
ManagerGet(name, k) == GetValue(heap[mgr.caches[name]], k, now)

\* C5: get_cache(name) has only ever returned one Cache object per name; that
\* object's default TTL is ttl_overrides[name] when given and the manager's
\* default_ttl otherwise; and get(k) on the cache of a name returns what was
\* last set there through that name (until that TTL has elapsed), whatever
\* was set or deleted under other names with the same key.
ManagerOneCachePerName ==
    \A name \in ToolNames :
        /\ Cardinality(returned[name]) <= 1
        /\ returned[name] # {} => returned[name] = {mgr.caches[name]}
        /\ name \in DOMAIN mgr.caches =>
              /\ heap[mgr.caches[name]].default_ttl = ExpectedTTL(mgr, name)
              /\ \A k \in MgrKeys :
                    ManagerGet(name, k) =
                        IF mlive[name][k] # Absent
                           /\ now < mlive[name][k].at + ExpectedTTL(mgr, name)
                        THEN mlive[name][k].val
                        ELSE None

\* get_cache has just been called for a name that already had its cache,
\* two names hold different values under the same key, and one name has an
\* override
ManagerOneCachePerNameWitness ==
    /\ \A name \in ToolNames : name \in DOMAIN mgr.caches
    /\ \E k \in MgrKeys :
          /\ ManagerGet("tool1", k) = StrValue("v1")
          /\ ManagerGet("prometheus_metrics", k) = StrValue("v2")
    /\ "prometheus_metrics" \in DOMAIN mgr.ttl_overrides
    /\ heap[mgr.caches["prometheus_metrics"]].default_ttl # heap[mgr.caches["tool1"]].default_ttl
    /\ last.op = "get_cache"
    /\ Len(heap) = Cardinality(ToolNames)

----------------------------------------------------------------------------
(* Time arguments: text and parsing                                         *)
(*                                                                          *)
(* A time argument is a sequence of characters.  An ISO-8601 timestamp is   *)
(* abbreviated to T<seconds> for a timestamp without UTC offset (a naive    *)
(* datetime) and T<seconds>Z for one with a trailing Z (an aware datetime); *)
(* <seconds> is the instant it denotes, in seconds since the epoch.         *)

Digits == {"0", "1", "2", "3", "4", "5", "6", "7", "8", "9"}

DigitValue(ch) ==
    CASE ch = "0" -> 0 [] ch = "1" -> 1 [] ch = "2" -> 2 [] ch = "3" -> 3
      [] ch = "4" -> 4 [] ch = "5" -> 5 [] ch = "6" -> 6 [] ch = "7" -> 7
      [] ch = "8" -> 8 [] ch = "9" -> 9

DigitChar(d) == <<"0", "1", "2", "3", "4", "5", "6", "7", "8", "9">>[d + 1]

\* s is one or more decimal digits (the regex \d+)
IsDigits(s) == Len(s) > 0 /\ \A i \in 1..Len(s) : s[i] \in Digits

\* int(s) of a digit string
RECURSIVE ParseInt(_)
ParseInt(s) ==
    IF Len(s) = 0 THEN 0
    ELSE 10 * ParseInt(SubSeq(s, 1, Len(s) - 1)) + DigitValue(s[Len(s)])

\* str(n) for n >= 0
RECURSIVE IntText(_)
IntText(n) ==
    IF n < 10 THEN <<DigitChar(n)>> ELSE IntText(n \div 10) \o <<DigitChar(n % 10)>>

UnitSeconds(u) == CASE u = "m" -> 60 [] u = "h" -> 3600 [] u = "d" -> 86400

NowText == <<"n", "o", "w">>
RelText(n, unit) == <<"-">> \o IntText(n) \o <<unit>>
UnixText(n) == IntText(n)
IsoText(n) == <<"T">> \o IntText(n)
IsoZText(n) == <<"T">> \o IntText(n) \o <<"Z">>

\* a datetime: seconds since the epoch and whether it carries a UTC offset
DateTime(secs, aware) == [secs |-> secs, aware |-> aware]
NoDateTime == [secs |-> -1, aware |-> "none"]

\* the regex ^-(\d+)([mhd])$
IsRelative(s) ==
    /\ Len(s) >= 3
    /\ s[1] = "-"
    /\ s[Len(s)] \in {"m", "h", "d"}
    /\ IsDigits(SubSeq(s, 2, Len(s) - 1))

\* _parse_relative_time(time_str) when datetime.now() reads clock
ParseRelativeTime(s, clock) ==
    IF s = NowText THEN DateTime(clock, FALSE)
    ELSE IF IsRelative(s)
         THEN DateTime(clock - ParseInt(SubSeq(s, 2, Len(s) - 1)) * UnitSeconds(s[Len(s)]),
                       FALSE)
         ELSE NoDateTime

\* float(s) succeeds: an optionally signed digit string
IsFloat(s) ==
    \/ IsDigits(s)
    \/ Len(s) >= 2 /\ s[1] = "-" /\ IsDigits(Tail(s))

FloatValue(s) == IF s[1] = "-" THEN 0 - ParseInt(Tail(s)) ELSE ParseInt(s)

\* datetime.fromisoformat(s.replace("Z", "+00:00")) succeeds
IsIso(s) ==
    /\ Len(s) >= 2
    /\ s[1] = "T"
    /\ \/ IsDigits(Tail(s))
       \/ s[Len(s)] = "Z" /\ IsDigits(SubSeq(s, 2, Len(s) - 1))

IsoValue(s) ==
    IF s[Len(s)] = "Z"
    THEN DateTime(ParseInt(SubSeq(s, 2, Len(s) - 1)), TRUE)
    ELSE DateTime(ParseInt(Tail(s)), FALSE)

\* tools/prometheus.py: one bound of _validate_time_range
PromParseBound(s, clock) ==
    IF ParseRelativeTime(s, clock) # NoDateTime THEN ParseRelativeTime(s, clock)
    ELSE IF IsFloat(s) THEN DateTime(FloatValue(s), FALSE)
    ELSE IF IsIso(s) THEN IsoValue(s)
    ELSE NoDateTime

\* tools/graylog.py: one bound of _validate_time_range
GraylogParseBound(s, clock) ==
    IF ParseRelativeTime(s, clock) # NoDateTime THEN ParseRelativeTime(s, clock)
    ELSE IF IsIso(s) THEN IsoValue(s)
    ELSE NoDateTime

\* the rest of _validate_time_range: order check, then span check with the
\* given tolerance.  Comparing a naive with an aware datetime raises TypeError.
CheckRange(from_dt, to_dt, max_hours, tolerance) ==
    LET span == to_dt.secs - from_dt.secs
        base == [outcome |-> "ok", requested_seconds |-> span, max_hours |-> max_hours,
                 from_dt |-> from_dt, to_dt |-> to_dt]
    IN IF from_dt = NoDateTime \/ to_dt = NoDateTime
       THEN [base EXCEPT !.outcome = "InvalidQuery"]
       ELSE IF from_dt.aware # to_dt.aware
       THEN [base EXCEPT !.outcome = "TypeError"]
       ELSE IF from_dt.secs >= to_dt.secs
       THEN [base EXCEPT !.outcome = "InvalidQuery"]
       ELSE IF span > max_hours * 3600 + tolerance
       THEN [base EXCEPT !.outcome = "TimeRangeExceeded"]
       ELSE base

\* tools/prometheus.py _validate_time_range: start parsed when the clock
\* reads clock1, end when it reads clock2; no tolerance
PromValidateTimeRange(start, end, max_hours, clock1, clock2) ==
    CheckRange(PromParseBound(start, clock1), PromParseBound(end, clock2), max_hours, 0)

\* tools/graylog.py _validate_time_range: 0.01 h = 36 s of tolerance
GraylogValidateTimeRange(from_time, to_time, max_hours, clock1, clock2) ==
    CheckRange(GraylogParseBound(from_time, clock1), GraylogParseBound(to_time, clock2),
               max_hours, GraylogToleranceSeconds)

----------------------------------------------------------------------------
(* Catalog listings: pattern filter, sort, limit *)

CharCode(ch) ==
    CASE ch = "A" -> 65 [] ch = "B" -> 66 [] ch = "_" -> 95
      [] ch = "a" -> 97 [] ch = "b" -> 98
      [] OTHER -> 0

Lower(ch) == CASE ch = "A" -> "a" [] ch = "B" -> "b" [] OTHER -> ch

LowerText(s) == [i \in 1..Len(s) |-> Lower(s[i])]

\* str < str: by code point, a proper prefix first
RECURSIVE TextLess(_, _)
TextLess(a, b) ==
    IF Len(b) = 0 THEN FALSE
    ELSE IF Len(a) = 0 THEN TRUE
    ELSE IF CharCode(a[1]) # CharCode(b[1]) THEN CharCode(a[1]) < CharCode(b[1])
    ELSE TextLess(Tail(a), Tail(b))

\* A pattern is a literal text, or a text containing "(", which does not
\* compile.  re.compile(pattern, re.IGNORECASE) raises re.error:
PatternCompiles(p) == \A i \in 1..Len(p) : p[i] # "("

NoPattern == <<"<None>">>

\* compiled_pattern.search(name): the literal occurs in name, ignoring case
PatternSearch(p, name) ==
    \E i \in 0..(Len(name) - Len(p)) :
        LowerText(SubSeq(name, i + 1, i + Len(p))) = LowerText(p)

\* "if pattern:" - None and the empty pattern do not filter
Filters(p) == p # NoPattern /\ Len(p) > 0

\* list.sort(key=...) of <<key, item>> pairs by key; stable: a pair goes
\* before every pair with a greater key and every later pair with an equal key
SortPairs(pairs) ==
    LET indexed == [i \in 1..Len(pairs) |-> <<pairs[i][1], i, pairs[i][2]>>]
        sorted == SortSeq(indexed,
                          LAMBDA a, b : \/ TextLess(a[1], b[1])
                                        \/ ~TextLess(b[1], a[1]) /\ a[2] < b[2])
    IN [k \in 1..Len(pairs) |-> <<sorted[k][1], sorted[k][3]>>]

\* all_metrics.sort()
SortTexts(items) ==
    LET sorted == SortPairs([i \in 1..Len(items) |-> <<items[i], items[i]>>])
    IN [i \in 1..Len(sorted) |-> sorted[i][2]]

\* all_fields.sort(key=lambda f: f["name"])
SortByName(items) ==
    LET sorted == SortPairs([i \in 1..Len(items) |-> <<items[i].name, items[i]>>])
    IN [i \in 1..Len(sorted) |-> sorted[i][2]]

\* items[:limit] (a negative limit counts from the end)
Slice(items, limit) ==
    IF limit >= 0
    THEN SubSeq(items, 1, IF limit < Len(items) THEN limit ELSE Len(items))
    ELSE SubSeq(items, 1, IF Len(items) + limit > 0 THEN Len(items) + limit ELSE 0)

Min(a, b) == IF a < b THEN a ELSE b

ListValue(items) == [kind |-> "list", items |-> items]
DictValue(items) == [kind |-> "dict", items |-> items]

\* prometheus_metrics, lines 270-294: the response built from the catalog
MetricsResponseNeverTruncated(cached_data, pattern, limit, was_cached) ==
    LET all_metrics == IF Filters(pattern)
                       THEN SelectSeq(cached_data.items, LAMBDA m : PatternSearch(pattern, m))
                       ELSE cached_data.items
        truncated_metrics == Slice(SortTexts(all_metrics), limit)
    IN [kind |-> "response",
        entries |-> truncated_metrics,
        count |-> Len(truncated_metrics),
        total_available |-> Len(all_metrics),
        pattern |-> pattern,
        truncated |-> FALSE,
        cached |-> was_cached]

MetricsResponse(cached_data, pattern, limit, was_cached) ==
    LET all_metrics == IF Filters(pattern)
                       THEN SelectSeq(cached_data.items, LAMBDA m : PatternSearch(pattern, m))
                       ELSE cached_data.items
        sorted == SortTexts(all_metrics)
        truncated_metrics == Slice(sorted, limit)
    IN [kind |-> "response",
        entries |-> truncated_metrics,
        count |-> Len(truncated_metrics),
        total_available |-> Len(sorted),
        pattern |-> pattern,
        truncated |-> Len(sorted) > Len(truncated_metrics),
        cached |-> was_cached]

\* graylog_fields, line 460: a field's type is the info itself when it is a
\* string, else info.get("type", "unknown")
FieldType(info) ==
    IF info.kind = "str" THEN info.text
    ELSE IF "type" \in DOMAIN info THEN info.type ELSE "unknown"

\* graylog_fields, lines 457-489
FieldsResponse(cached_data, pattern, limit, was_cached) ==
    LET all_fields == [i \in 1..Len(cached_data.items) |->
                          [name |-> cached_data.items[i][1],
                           type |-> FieldType(cached_data.items[i][2])]]
        kept == IF Filters(pattern)
                THEN SelectSeq(all_fields, LAMBDA f : PatternSearch(pattern, f.name))
                ELSE all_fields
        sorted == SortByName(kept)
        truncated_fields == Slice(sorted, limit)
    IN [kind |-> "response",
        entries |-> truncated_fields,
        count |-> Len(truncated_fields),
        total_available |-> Len(sorted),
        pattern |-> pattern,
        truncated |-> Len(sorted) > Len(truncated_fields),
        cached |-> was_cached]

----------------------------------------------------------------------------
(* tools/prometheus.py and clients/prometheus.py *)

\* what a backend call gave: outcome "ok" with data, or an error code
BackendOk(data) == [outcome |-> "ok", data |-> data]
BackendError(code) == [outcome |-> code, data |-> None]

CallResult(c, outcome, requests, result) ==
    [cache |-> c, outcome |-> outcome, requests |-> requests, result |-> result]

MetricsKey ==
    <<"p", "r", "o", "m", "e", "t", "h", "e", "u", "s", "_",
      "m", "e", "t", "r", "i", "c", "s">>

\* prometheus_metrics from the answer to client.get_metrics on, lines
\* 265-294, on the cache as it is at time t when the answer arrives
MetricsAfterFetchKeepFirst(c, pattern, limit, backend, t) ==
    IF backend.outcome # "ok"
    THEN CallResult(c, backend.outcome, 1, None)
    ELSE CallResult(IF Contains(c, MetricsKey, t) THEN c
                    ELSE SetValue(c, MetricsKey, backend.data, t),
                    "ok", 1,
                    MetricsResponse(backend.data, pattern, Min(limit, MaxCatalogLimit), FALSE))

MetricsAfterFetch(c, pattern, limit, backend, t) ==
    IF backend.outcome # "ok"
    THEN CallResult(c, backend.outcome, 1, None)
    ELSE CallResult(SetValue(c, MetricsKey, backend.data, t), "ok", 1,
                    MetricsResponse(backend.data, pattern, Min(limit, MaxCatalogLimit), FALSE))

\* prometheus_metrics(client, config, cache, pattern, limit) at time t, the
\* backend answering get_metrics() with backend
MetricsCallNoStore(c, pattern, limit, backend, t) ==
    IF Filters(pattern) /\ ~PatternCompiles(pattern)
    THEN CallResult(c, "InvalidPattern", 0, None)
    ELSE IF backend.outcome # "ok"
    THEN CallResult(c, backend.outcome, 1, None)
    ELSE CallResult(c, "ok", 1,
                    MetricsResponse(backend.data, pattern, Min(limit, MaxCatalogLimit), FALSE))

MetricsCall(c, pattern, limit, backend, t) ==
    IF Filters(pattern) /\ ~PatternCompiles(pattern)
    THEN CallResult(c, "InvalidPattern", 0, None)
    ELSE
      LET clamped == Min(limit, MaxCatalogLimit)
          cached_data == GetValue(c, MetricsKey, t)
          c1 == GetTouch(c, MetricsKey, t)
          was_cached == cached_data # None
      IN IF was_cached
         THEN CallResult(c1, "ok", 0, MetricsResponse(cached_data, pattern, clamped, TRUE))
         ELSE MetricsAfterFetch(c1, pattern, limit, backend, t)

\* PrometheusClient._parse_time: relative texts pass through, numbers and
\* ISO timestamps become Unix timestamps
ClientTime(text) == [kind |-> "text", text |-> text]
ClientStamp(secs) == [kind |-> "number", secs |-> secs]
ClientInvalid == [kind |-> "invalid"]

PromClientParseTime(s) ==
    IF s = NowText \/ (Len(s) > 0 /\ s[1] = "-") THEN ClientTime(s)
    ELSE IF IsFloat(s) THEN ClientStamp(FloatValue(s))
    ELSE IF IsIso(s) THEN ClientStamp(IsoValue(s).secs)
    ELSE ClientInvalid

NoStep == <<"<None>">>
StepText(step) == IF step = NoStep THEN <<"N", "o", "n", "e">> ELSE step

\* PrometheusClient.query_range: the step sent
SentStep(parsed_start, parsed_end, step) ==
    IF step # NoStep THEN step
    ELSE IF parsed_start.kind = "number" /\ parsed_end.kind = "number"
         THEN LET range_seconds == parsed_end.secs - parsed_start.secs
                  per_sample == range_seconds \div StepSamples
              IN IntText(IF per_sample > 1 THEN per_sample ELSE 1) \o <<"s">>
         ELSE <<"1", "5", "s">>

\* PrometheusClient.query_range: the request sent, or none when a bound does
\* not parse
NoRequest == [kind |-> "none"]

PromRangeRequest(query, start, end, step) ==
    LET parsed_start == PromClientParseTime(start)
        parsed_end == PromClientParseTime(end)
    IN IF parsed_start = ClientInvalid \/ parsed_end = ClientInvalid THEN NoRequest
       ELSE [kind |-> "query_range", query |-> query, start |-> parsed_start,
             end |-> parsed_end, step |-> SentStep(parsed_start, parsed_end, step)]

\* prometheus_query_range line 190: both bounds are neither relative nor now
IsCompletedRangeAlways(start, end) == TRUE

IsCompletedRange(start, end) ==
    /\ ~((Len(start) > 0 /\ start[1] = "-") \/ start = NowText)
    /\ ~((Len(end) > 0 /\ end[1] = "-") \/ end = NowText)

\* f"prom_range:{query}:{start}:{end}:{step}"
RangeKey(query, start, end, step) ==
    <<"p", "r", "o", "m", "_", "r", "a", "n", "g", "e", ":">>
        \o query \o <<":">> \o start \o <<":">> \o end \o <<":">> \o StepText(step)

ResultValue(id) == [kind |-> "result", id |-> id]

\* prometheus_query_range from the answer to client.query_range on, lines
\* 204-209, on the cache as it is at time t when the answer arrives
RangeAfterFetch(c, query, start, end, step, backend, t) ==
    IF backend.outcome # "ok"
    THEN CallResult(c, backend.outcome, 1, None)
    ELSE CallResult(IF IsCompletedRange(start, end)
                    THEN SetValue(c, RangeKey(query, start, end, step), backend.data, t)
                    ELSE c,
                    "ok", 1, backend.data)

\* prometheus_query_range(client, config, cache, query, start, end, step):
\* the clock reads clock1 when start is parsed and clock2 from then on
RangeCall(c, query, start, end, step, max_hours, backend, clock1, clock2) ==
    LET checked == PromValidateTimeRange(start, end, max_hours, clock1, clock2)
        completed == IsCompletedRange(start, end)
        cache_key == RangeKey(query, start, end, step)
        cached_result == IF completed THEN GetValue(c, cache_key, clock2) ELSE None
        c1 == IF completed THEN GetTouch(c, cache_key, clock2) ELSE c
        request == PromRangeRequest(query, start, end, step)
    IN IF checked.outcome # "ok"
       THEN CallResult(c, checked.outcome, 0, checked)
       ELSE IF cached_result # None
       THEN CallResult(c1, "ok", 0, cached_result)
       ELSE IF request = NoRequest
       THEN CallResult(c1, "InvalidQuery", 0, None)
       ELSE RangeAfterFetch(c1, query, start, end, step, backend, clock2)

----------------------------------------------------------------------------
(* tools/graylog.py: graylog_fields *)

FieldsKey == <<"g", "r", "a", "y", "l", "o", "g", "_", "f", "i", "e", "l", "d", "s">>

\* raw_response.get("fields", []) of the backend's answer to get_fields()
FieldsOf(raw_response) ==
    IF "fields" \in DOMAIN raw_response THEN raw_response.fields ELSE ListValue(<< >>)

\* cached_data.items() exists on a dict only
FieldsShaped(cached_data, pattern, limit, was_cached, c, requests) ==
    IF cached_data.kind # "dict"
    THEN CallResult(c, "AttributeError", requests, None)
    ELSE CallResult(c, "ok", requests, FieldsResponse(cached_data, pattern, limit, was_cached))

\* graylog_fields from the answer to client.get_fields on, lines 451-489,
\* on the cache as it is at time t when the answer arrives
FieldsAfterFetch(c, pattern, limit, backend, t) ==
    IF backend.outcome # "ok"
    THEN CallResult(c, backend.outcome, 1, None)
    ELSE FieldsShaped(FieldsOf(backend.data), pattern, limit, FALSE,
                      SetValue(c, FieldsKey, FieldsOf(backend.data), t), 1)

\* graylog_fields(client, config, cache, pattern, limit) at time t
FieldsCallFetchFirst(c, pattern, limit, backend, t) ==
    LET cached_data == GetValue(c, FieldsKey, t)
        c1 == GetTouch(c, FieldsKey, t)
        was_cached == cached_data # None
        c2 == IF was_cached \/ backend.outcome # "ok" THEN c1
              ELSE SetValue(c1, FieldsKey, FieldsOf(backend.data), t)
        requests == IF was_cached THEN 0 ELSE 1
    IN IF ~was_cached /\ backend.outcome # "ok"
       THEN CallResult(c1, backend.outcome, 1, None)
       ELSE IF Filters(pattern) /\ ~PatternCompiles(pattern)
       THEN CallResult(c2, "InvalidPattern", requests, None)
       ELSE FieldsShaped(IF was_cached THEN cached_data ELSE FieldsOf(backend.data),
                         pattern, limit, was_cached, c2, requests)

FieldsCall(c, pattern, limit, backend, t) ==
    IF Filters(pattern) /\ ~PatternCompiles(pattern)
    THEN CallResult(c, "InvalidPattern", 0, None)
    ELSE
      LET cached_data == GetValue(c, FieldsKey, t)
          c1 == GetTouch(c, FieldsKey, t)
          was_cached == cached_data # None
      IN IF was_cached
         THEN FieldsShaped(cached_data, pattern, limit, TRUE, c1, 0)
         ELSE FieldsAfterFetch(c1, pattern, limit, backend, t)

----------------------------------------------------------------------------
(* Spec: the catalog tools and prometheus_query_range, called one after the *)
(* other against the caches the server gives them.  prometheus_metrics and  *)
(* prometheus_query_range share one cache (server.py).  A call is one step; *)
(* the clock may advance by a second between the two reads of the clock     *)
(* that range validation makes.                                             *)

CatalogTools == {"graylog_fields", "prometheus_metrics"}
CatalogPatterns == {NoPattern, <<"a">>, <<"(">>}
CatalogLimits == {2}

MetricsPayloads ==
    {ListValue(<< <<"b">>, <<"A", "b">>, <<"a">> >>), ListValue(<< <<"a", "_">> >>)}

FieldsPayloads ==
    {[fields |-> DictValue(<< << <<"b">>, [kind |-> "str", text |-> "string"] >>,
                              << <<"A">>, [kind |-> "dict", type |-> "long"] >>,
                              << <<"a", "b">>, [kind |-> "dict"] >> >>)],
     [fields |-> DictValue(<< << <<"a">>, [kind |-> "str", text |-> "long"] >> >>)],
     [total |-> 0]}

BackendErrors == {"UpstreamServerError"}

MetricsBackends == {BackendOk(d) : d \in MetricsPayloads} \cup {BackendError(e) : e \in BackendErrors}
FieldsBackends == {BackendOk(d) : d \in FieldsPayloads} \cup {BackendError(e) : e \in BackendErrors}
RangeBackends == {BackendOk(ResultValue(i)) : i \in 1..2} \cup {BackendError(e) : e \in BackendErrors}

RangeQueries == {<<"u", "p">>}
RangeStarts == {UnixText(TimeBase - 3600), RelText(PromMaxRangeHours, "h")}
RangeEnds == {UnixText(TimeBase), NowText}
RangeSteps == {NoStep, <<"N", "o", "n", "e">>}
RangeArgs == RangeQueries \X RangeStarts \X RangeEnds \X RangeSteps

\* the history's view: a payload fetched at time at is still stored at time t
Fresh(entry, t, ttl) == entry # Absent /\ t < entry.at + ttl

NoCall == [op |-> "none", args |-> << >>, outcome |-> "none", requests |-> 0,
           result |-> None, prior |-> Absent, at |-> 0, ttl |-> 0, touched |-> FALSE]

Called(op, args, r, prior, t, touched) ==
    [op |-> op, args |-> args, outcome |-> r.outcome, requests |-> r.requests,
     result |-> r.result, prior |-> prior, at |-> t, ttl |-> ToolTTL, touched |-> touched]

Init ==
    /\ now = TimeBase
    /\ opCount = 0
    /\ last = NoCall
    /\ promCache = NewCache(ToolTTL, DefaultMaxSize)
    /\ glCache = NewCache(ToolTTL, DefaultMaxSize)
    /\ hist = [catalog |-> [t \in CatalogTools |-> Absent],
               range |-> [a \in RangeArgs |-> Absent]]
    /\ CacheIdle
    /\ ManagerIdle
    /\ BackendsIdle
    /\ ServerIdle

ToolTick ==
    /\ now < TimeBase + ToolMaxTime
    /\ now' = now + 1
    /\ UNCHANGED AllButNow

CallPrometheusMetrics ==
    \E pattern \in CatalogPatterns, limit \in CatalogLimits, backend \in MetricsBackends :
        LET r == MetricsCall(promCache, pattern, limit, backend, now)
        IN /\ opCount < ToolMaxCalls
           /\ opCount' = opCount + 1
           /\ promCache' = r.cache
           /\ last' = Called("prometheus_metrics", <<pattern, limit>>, r,
                             hist.catalog["prometheus_metrics"], now, r.cache # promCache)
           /\ hist' = IF r.requests = 1 /\ backend.outcome = "ok"
                      THEN [hist EXCEPT !.catalog["prometheus_metrics"] =
                                            [at |-> now, val |-> backend.data]]
                      ELSE hist
           /\ UNCHANGED <<now, glCache, OtherThanTools>>

CallGraylogFields ==
    \E pattern \in CatalogPatterns, limit \in CatalogLimits, backend \in FieldsBackends :
        LET r == FieldsCall(glCache, pattern, limit, backend, now)
        IN /\ opCount < ToolMaxCalls
           /\ opCount' = opCount + 1
           /\ glCache' = r.cache
           /\ last' = Called("graylog_fields", <<pattern, limit>>, r,
                             hist.catalog["graylog_fields"], now, r.cache # glCache)
           /\ hist' = IF r.requests = 1 /\ backend.outcome = "ok"
                      THEN [hist EXCEPT !.catalog["graylog_fields"] =
                                            [at |-> now, val |-> backend.data]]
                      ELSE hist
           /\ UNCHANGED <<now, promCache, OtherThanTools>>

CallPrometheusQueryRange ==
    \E args \in RangeArgs, backend \in RangeBackends, drift \in {0, 1} :
        LET clock2 == now + drift
            r == RangeCall(promCache, args[1], args[2], args[3], args[4],
                           PromMaxRangeHours, backend, now, clock2)
        IN /\ opCount < ToolMaxCalls
           /\ clock2 <= TimeBase + ToolMaxTime
           /\ opCount' = opCount + 1
           /\ now' = clock2
           /\ promCache' = r.cache
           /\ last' = Called("prometheus_query_range", args, r, hist.range[args], clock2,
                             r.cache # promCache)
           /\ hist' = IF r.requests = 1 /\ backend.outcome = "ok"
                      THEN [hist EXCEPT !.range[args] = [at |-> clock2, val |-> backend.data]]
                      ELSE hist
           /\ UNCHANGED <<glCache, OtherThanTools>>

Next ==
    \/ ToolTick
    \/ CallPrometheusMetrics
    \/ CallGraylogFields
    \/ CallPrometheusQueryRange

Spec == Init /\ [][Next]_vars

\* C1: a graylog_fields or prometheus_metrics call whose pattern compiles
\* issues no backend request and reports cached=true when a catalog fetched
\* by an earlier call is still within its TTL, and otherwise issues exactly
\* one backend request and reports cached=false; so cached=false holds
\* exactly when the call issued a backend request.
CatalogCachedIffNoRequest ==
    (last.op \in CatalogTools /\ last.outcome # "InvalidPattern") =>
        LET fresh == Fresh(last.prior, last.at, last.ttl)
        IN /\ last.requests = (IF fresh THEN 0 ELSE 1)
           /\ last.outcome = "ok" =>
                 /\ last.result.cached = fresh
                 /\ (last.result.cached = FALSE) = (last.requests = 1)

\* C1 witness: a prometheus_metrics call answered from a catalog fetched by
\* an earlier call, and reporting cached=true
CatalogCachedIffNoRequestWitness ==
    /\ last.op = "prometheus_metrics"
    /\ last.outcome = "ok"
    /\ last.result.cached = TRUE
    /\ last.requests = 0
    /\ Fresh(last.prior, last.at, last.ttl)
    /\ last.at > last.prior.at

\* C6: a prometheus_query_range call that passes validation: with both bounds
\* absolute and a result fetched by an earlier call with the same query,
\* start, end and step still within its TTL, it returns that result and
\* issues no backend request; with a bound that is 'now' or begins with '-'
\* it leaves the cache as it was and issues exactly one backend request.
RangeCachedOnlyWhenAbsolute ==
    (last.op = "prometheus_query_range"
        /\ last.outcome \notin {"InvalidQuery", "TimeRangeExceeded", "TypeError"}) =>
        LET absolute(s) == s # NowText /\ ~(Len(s) > 0 /\ s[1] = "-")
        IN IF absolute(last.args[2]) /\ absolute(last.args[3])
           THEN Fresh(last.prior, last.at, last.ttl) =>
                    /\ last.outcome = "ok"
                    /\ last.result = last.prior.val
                    /\ last.requests = 0
           ELSE /\ last.requests = 1
                /\ ~last.touched

\* C6 witness: an absolute range answered from the cache with the result of
\* the first call, after the clock has moved on
RangeCachedOnlyWhenAbsoluteWitness ==
    /\ last.op = "prometheus_query_range"
    /\ last.outcome = "ok"
    /\ last.requests = 0
    /\ Fresh(last.prior, last.at, last.ttl)
    /\ last.at > last.prior.at
    /\ last.result = last.prior.val

\* C30: a prometheus_query_range call answered from the cache (no backend
\* request) returns a result that an earlier call with the same query, start,
\* end and step fetched: calls that differ in one of the four arguments never
\* share a cache key.
RangeServedToSameArguments ==
    (last.op = "prometheus_query_range" /\ last.outcome = "ok" /\ last.requests = 0) =>
        /\ last.prior # Absent
        /\ last.result = last.prior.val

\* C29: a call to graylog_fields, prometheus_metrics or
\* prometheus_query_range that ends in an error leaves its cache exactly as
\* it was before the call.
ErrorLeavesCacheAlone ==
    (last.op \in CatalogTools \cup {"prometheus_query_range"} /\ last.outcome # "ok") =>
        ~last.touched

----------------------------------------------------------------------------
(* clients/influxdb.py and tools/influxdb.py                                *)
(*                                                                          *)
(* A Flux query is a sequence of pieces of text: the keyword from(bucket:,  *)
(* a space, a double quote, a closing parenthesis, and single characters.   *)
(* No piece occurs inside another, so "is a substring of" on the text is    *)
(* "is a run of consecutive pieces of".                                     *)

FromKeyword == "from(bucket:"
Quote == "\""

\* a in b, for texts
IsSubstring(a, b) == \E i \in 0..(Len(b) - Len(a)) : SubSeq(b, i + 1, i + Len(a)) = a

\* f'from(bucket: "{bucket}")' and f"from(bucket:\"{bucket}\")"
SpacedLiteral(bucket) == <<FromKeyword, " ", Quote>> \o bucket \o <<Quote, ")">>
TightLiteral(bucket) == <<FromKeyword, Quote>> \o bucket \o <<Quote, ")">>

\* bucket in self.config.allowed_buckets
InList(x, list) == \E i \in 1..Len(list) : list[i] = x

\* InfluxDBClient._validate_bucket: passes, or BucketNotAllowed
ValidateBucket(allowed_buckets, bucket) ==
    IF InList(bucket, allowed_buckets) THEN [outcome |-> "ok"]
    ELSE [outcome |-> "BucketNotAllowed",
          details |-> [requested_bucket |-> bucket, allowed_buckets |-> allowed_buckets]]

\* InfluxDBClient._validate_query_bucket: passes, or InvalidQuery
ValidateQueryBucket(query, bucket) ==
    IF ~IsSubstring(SpacedLiteral(bucket), query) /\ ~IsSubstring(TightLiteral(bucket), query)
    THEN [outcome |-> "InvalidQuery", details |-> [bucket |-> bucket, query |-> query]]
    ELSE [outcome |-> "ok"]

\* what the InfluxDB backend does with a request: status 200 with a number
\* of records, another status, or no answer
\* str.strip(): leading and trailing whitespace removed
IsSpace(ch) == ch \in {" ", "\n"}

Strip(text) ==
    LET inked == {i \in 1..Len(text) : ~IsSpace(text[i])}
    IN IF inked = {} THEN << >>
       ELSE SubSeq(text, CHOOSE i \in inked : \A j \in inked : i <= j,
                         CHOOSE i \in inked : \A j \in inked : j <= i)

\* text.split(sep): the pieces between the separators, at least one piece
Split(text, sep) ==
    LET at == {i \in 1..Len(text) : text[i] = sep}
        cut(k) == IF k = 0 THEN 0
                  ELSE IF k = Cardinality(at) + 1 THEN Len(text) + 1
                  ELSE CHOOSE i \in at : Cardinality({j \in at : j < i}) = k - 1
    IN [k \in 1..(Cardinality(at) + 1) |-> SubSeq(text, cut(k - 1) + 1, cut(k) - 1)]

\* line.startswith("#")
IsAnnotation(line) == Len(line) > 0 /\ line[1] = "#"

\* csv_text[:500]
Preview(csv_text) == SubSeq(csv_text, 1, Min(PreviewLength, Len(csv_text)))

Parsed(records) == [outcome |-> "ok", records |-> records, details |-> None]

ParseFailed(csv_text) ==
    [outcome |-> "UpstreamClientError", records |-> << >>,
     details |-> [csv_preview |-> Preview(csv_text)]]

\* list(csv.DictReader(...)): one record for each line after the header that
\* is not empty, pairing the header with the line
DictRows(header_line, data_lines) ==
    LET rows == SelectSeq(data_lines, LAMBDA line : line # << >>)
    IN [i \in 1..Len(rows) |-> [header |-> header_line, row |-> rows[i]]]

\* InfluxDBClient._parse_csv_response(csv_text)
ParseCsvResponse(csv_text) ==
    LET lines == Split(Strip(csv_text), "\n")
        has_annotations == \E i \in 1..Len(lines) : IsAnnotation(lines[i])
        non_annotation_lines == SelectSeq(lines, LAMBDA line : ~IsAnnotation(line))
        header_line == non_annotation_lines[1]
        data_lines == Tail(non_annotation_lines)
    IN IF Len(lines) = 0
       THEN Parsed(<< >>)
       ELSE IF ~has_annotations /\ Len(lines) > 1
       THEN ParseFailed(csv_text)
       ELSE IF Len(non_annotation_lines) < 1
       THEN Parsed(<< >>)
       ELSE IF ~\E i \in 1..Len(data_lines) : Strip(data_lines[i]) # << >>
       THEN Parsed(<< >>)
       ELSE Parsed(DictRows(header_line, data_lines))

\* what the backend does with the POST: a response with a status and a
\* body, or no response - the request times out (httpx.TimeoutException) or
\* fails on the network (another httpx.RequestError)
InfluxAnswer(status, body) == [failure |-> "none", status |-> status, body |-> body]
NoAnswer == [failure |-> "network", status |-> 0, body |-> << >>]
TimedOut == [failure |-> "timeout", status |-> 0, body |-> << >>]

InfluxResult(outcome, details, posted, records) ==
    [outcome |-> outcome, details |-> details, posted |-> posted, records |-> records]

\* InfluxDBClient.query(query, bucket); posted is the requests it makes
InfluxClientQueryTextFirst(allowed_buckets, query, bucket, backend) ==
    LET listed == ValidateBucket(allowed_buckets, bucket)
        named == ValidateQueryBucket(query, bucket)
    IN IF named.outcome # "ok"
       THEN InfluxResult(named.outcome, named.details, << >>, 0)
       ELSE IF listed.outcome # "ok"
       THEN InfluxResult(listed.outcome, listed.details, << >>, 0)
       ELSE InfluxResult("ok", None, <<[path |-> "/api/v2/query", content |-> query]>>,
                         Len(ParseCsvResponse(backend.body).records))

InfluxClientQuery(allowed_buckets, query, bucket, backend) ==
    LET listed == ValidateBucket(allowed_buckets, bucket)
        named == ValidateQueryBucket(query, bucket)
        request == [path |-> "/api/v2/query", content |-> query]
        parsed == ParseCsvResponse(backend.body)
    IN IF listed.outcome # "ok"
       THEN InfluxResult(listed.outcome, listed.details, << >>, 0)
       ELSE IF named.outcome # "ok"
       THEN InfluxResult(named.outcome, named.details, << >>, 0)
       ELSE IF backend.failure # "none"
       THEN InfluxResult("UpstreamServerError", None, <<request>>, 0)
       ELSE IF backend.status # 200
       THEN InfluxResult("UpstreamClientError", [status_code |-> backend.status],
                         <<request>>, 0)
       ELSE IF parsed.outcome # "ok"
       THEN InfluxResult(parsed.outcome, parsed.details, <<request>>, 0)
       ELSE InfluxResult("ok", None, <<request>>, Len(parsed.records))

\* influxdb_query(client, config, cache, query, bucket): the client's
\* records wrapped as one table
InfluxdbQuery(allowed_buckets, query, bucket, backend) ==
    LET r == InfluxClientQuery(allowed_buckets, query, bucket, backend)
    IN IF r.outcome # "ok" THEN [r EXCEPT !.records = None]
       ELSE [r EXCEPT !.records = [record_count |-> r.records, truncated |-> FALSE]]

----------------------------------------------------------------------------
(* SpecInflux: influxdb_query called with any query, bucket and allow-list  *)

BucketNames == {<<"t">>, <<"t", "2">>, <<"s">>}
AllowLists == {<< <<"t">>, <<"t", "2">> >>, << <<"t">> >>}

\* a from clause with two spaces, which Flux reads like the others
WideClause(bucket) == <<FromKeyword, " ", " ", Quote>> \o bucket \o <<Quote, ")">>

FromClauses ==
    {SpacedLiteral(b) : b \in BucketNames} \cup {TightLiteral(b) : b \in BucketNames}
        \cup {WideClause(<<"t">>)}

Pipeline == <<"|", ">", "x">>

FluxQueries ==
    {Pipeline} \cup {c \o Pipeline : c \in FromClauses}
        \cup {c \o Pipeline \o d \o Pipeline : c \in FromClauses, d \in FromClauses}

\* response bodies: annotated CSV with a header and one row, and two lines
\* without annotations
OneRowTable == <<"#", "\n", "h", "\n", "r">>
NotCsv == <<"x", "\n", "y">>

InfluxAnswers ==
    {InfluxAnswer(200, OneRowTable), InfluxAnswer(200, NotCsv),
     InfluxAnswer(400, << >>), InfluxAnswer(500, << >>), NoAnswer, TimedOut}

InitInflux ==
    /\ now = 0
    /\ opCount = 0
    /\ last = NoCall
    /\ allowed \in AllowLists
    /\ sent = << >>
    /\ req = NoHttpCall
    /\ CacheIdle
    /\ ManagerIdle
    /\ promCache = NewCache(0, 0)
    /\ glCache = NewCache(0, 0)
    /\ hist = EmptyStore
    /\ ServerIdle

CallInfluxdbQuery ==
    \E query \in FluxQueries, bucket \in BucketNames, backend \in InfluxAnswers :
        LET r == InfluxdbQuery(allowed, query, bucket, backend)
        IN /\ opCount < InfluxMaxCalls
           /\ opCount' = opCount + 1
           /\ sent' = sent \o r.posted
           /\ last' = [op |-> "influxdb_query", query |-> query, bucket |-> bucket,
                       outcome |-> r.outcome, details |-> r.details,
                       requests |-> Len(r.posted), result |-> r.records,
                       answer |-> IF r.posted = << >> THEN None ELSE backend]
           /\ UNCHANGED <<now, allowed, OtherThanBackends>>

NextInflux == CallInfluxdbQuery

SpecInflux == InitInflux /\ [][NextInflux]_vars

\* C7: influxdb_query posts one request to the backend when the bucket
\* argument is in allowed_buckets and the query text contains
\* from(bucket: "<bucket>") or from(bucket:"<bucket>"), and none otherwise; a
\* bucket outside the list fails with BucketNotAllowed carrying the bucket and
\* the whole list, whatever the query; a listed bucket the query does not name
\* fails with InvalidQuery.
InfluxBucketGate ==
    last.op = "influxdb_query" =>
        LET listed == \E i \in DOMAIN allowed : allowed[i] = last.bucket
            named == \/ IsSubstring(<<FromKeyword, " ", Quote>> \o last.bucket \o <<Quote, ")">>,
                                    last.query)
                     \/ IsSubstring(<<FromKeyword, Quote>> \o last.bucket \o <<Quote, ")">>,
                                    last.query)
        IN /\ last.requests = (IF listed /\ named THEN 1 ELSE 0)
           /\ ~listed =>
                 /\ last.outcome = "BucketNotAllowed"
                 /\ last.details.requested_bucket = last.bucket
                 /\ last.details.allowed_buckets = allowed
           /\ (listed /\ ~named) => last.outcome = "InvalidQuery"
           /\ (listed /\ named) => last.outcome \notin {"BucketNotAllowed", "InvalidQuery"}

\* C7 witness: a bucket outside the allow-list, given with a query that names
\* another bucket, is refused as BucketNotAllowed without a request
InfluxBucketGateWitness ==
    /\ last.op = "influxdb_query"
    /\ last.outcome = "BucketNotAllowed"
    /\ last.bucket = <<"s">>
    /\ last.query = SpacedLiteral(<<"t">>) \o Pipeline
    /\ last.requests = 0
    /\ sent = << >>

\* the bucket named by the from clause whose keyword is piece i of the query
BucketAt(query, i) ==
    LET j == CHOOSE j \in (i + 1)..(Len(query) + 1) :
                 /\ \A k \in (i + 1)..(j - 1) : query[k] = " "
                 /\ j = Len(query) + 1 \/ query[j] # " "
        k == CHOOSE k \in (j + 1)..(Len(query) + 1) :
                 /\ \A m \in (j + 1)..(k - 1) : query[m] # Quote
                 /\ k = Len(query) + 1 \/ query[k] = Quote
    IN SubSeq(query, j + 1, k - 1)

\* the buckets a query reads from
ReferencedBuckets(query) ==
    {BucketAt(query, i) : i \in {i \in 1..Len(query) : query[i] = FromKeyword}}

\* C8: every query the backend has received reads only from buckets in
\* allowed_buckets.
ForwardedQueriesReadAllowedBuckets ==
    \A n \in 1..Len(sent) :
        \A b \in ReferencedBuckets(sent[n].content) : \E i \in DOMAIN allowed : allowed[i] = b

\* C19: a request of influxdb_query that times out gives UpstreamTimeout, a
\* 4xx response gives UpstreamClientError after one request, and a 5xx
\* response or network error gives UpstreamServerError after max_retries
\* retries.
InfluxTransportTranslated ==
    (last.op = "influxdb_query" /\ last.requests > 0) =>
        /\ last.answer.failure = "timeout" => last.outcome = "UpstreamTimeout"
        /\ (last.answer.failure = "none" /\ last.answer.status \in 400..499) =>
               last.outcome = "UpstreamClientError" /\ last.requests = 1
        /\ (last.answer.failure = "network" \/ last.answer.status \in 500..599) =>
               last.outcome = "UpstreamServerError" /\ last.requests = MaxRetries + 1

----------------------------------------------------------------------------
(* SpecCsv: _parse_csv_response applied to any response body                *)

BodyChars == {"#", "x", "\n", " "}

\* two lines without annotations, the second of n characters
LongBody(n) == <<"x", "\n">> \o [i \in 1..n |-> "x"]

Bodies ==
    UNION {[1..n -> BodyChars] : n \in 0..MaxBodyLength}
        \cup {LongBody(n) : n \in (PreviewLength - 3)..(PreviewLength - 1)}

InitCsv ==
    /\ now = 0
    /\ opCount = 0
    /\ last = NoCall
    /\ allowed = << >>
    /\ sent = << >>
    /\ req = NoHttpCall
    /\ CacheIdle
    /\ ManagerIdle
    /\ promCache = NewCache(0, 0)
    /\ glCache = NewCache(0, 0)
    /\ hist = EmptyStore
    /\ ServerIdle

ParseBody ==
    \E csv_text \in Bodies :
        LET r == ParseCsvResponse(csv_text)
        IN /\ opCount < CsvMaxCalls
           /\ opCount' = opCount + 1
           /\ last' = [op |-> "_parse_csv_response", csv_text |-> csv_text,
                       outcome |-> r.outcome, records |-> r.records, details |-> r.details]
           /\ UNCHANGED <<now, OtherThanTools, toolVars>>

NextCsv == ParseBody

SpecCsv == InitCsv /\ [][NextCsv]_vars

\* a body is well-formed annotated CSV when, surrounding whitespace apart,
\* it has an annotation line and, as header, a line that is neither an
\* annotation nor blank; its data rows are the non-blank lines after the header
BodyLines(text) == Split(Strip(text), "\n")

Annotated(text) == \E i \in DOMAIN BodyLines(text) : IsAnnotation(BodyLines(text)[i])

ContentLines(text) ==
    SelectSeq(BodyLines(text), LAMBDA line : ~IsAnnotation(line) /\ Strip(line) # << >>)

WellFormedCsv(text) == Annotated(text) /\ Len(ContentLines(text)) >= 1

\* C20: a body that is not well-formed annotated CSV fails with
\* UpstreamClientError and a preview of its first 500 characters at most; an
\* empty record list comes only from a well-formed body with a header and no
\* data row.
MalformedCsvRejected ==
    last.op = "_parse_csv_response" =>
        /\ ~WellFormedCsv(last.csv_text) =>
               /\ last.outcome = "UpstreamClientError"
               /\ last.details.csv_preview = Preview(last.csv_text)
               /\ Len(last.details.csv_preview) <= PreviewLength
        /\ (last.outcome = "ok" /\ last.records = << >>) =>
               WellFormedCsv(last.csv_text) /\ Len(ContentLines(last.csv_text)) = 1
----------------------------------------------------------------------------
(* tools/graylog.py: graylog_search, and clients/graylog.py: search         *)

\* GraylogClient._parse_time: relative texts pass through, ISO timestamps
\* become integer Unix timestamps
GraylogClientParseTime(s) ==
    IF s = NowText \/ (Len(s) > 0 /\ s[1] = "-") THEN ClientTime(s)
    ELSE IF IsIso(s) THEN ClientStamp(IsoValue(s).secs)
    ELSE ClientInvalid

\* GraylogClient.search: the request sent, or none when a bound does not parse
GraylogSearchRequest(query, from_time, to_time, limit) ==
    LET parsed_from == GraylogClientParseTime(from_time)
        parsed_to == GraylogClientParseTime(to_time)
        use_relative == parsed_from.kind = "text" /\ parsed_to.kind = "text"
    IN IF parsed_from = ClientInvalid \/ parsed_to = ClientInvalid THEN NoRequest
       ELSE IF use_relative
       THEN [kind |-> "search_relative", query |-> query,
             limit |-> Min(limit, GraylogMaxResults), range |-> parsed_from]
       ELSE [kind |-> "search_absolute", query |-> query,
             limit |-> Min(limit, GraylogMaxResults), from |-> parsed_from, to |-> parsed_to]

\* the limit argument: None, or an integer
NoLimit == None
IntValue(n) == [kind |-> "int", value |-> n]

\* graylog_search, lines 298-301: the default when no limit is given, then
\* the clamp to config.max_results
SearchLimitNoDefault(limit) ==
    Min(IF limit = NoLimit THEN GraylogMaxResults ELSE limit.value, GraylogMaxResults)

SearchLimit(limit) ==
    Min(IF limit = NoLimit THEN GraylogDefaultResults ELSE limit.value, GraylogMaxResults)

\* raw_response.get("messages", []) and
\* raw_response.get("total_results", len(messages))
MessagesOf(raw_response) ==
    IF "messages" \in DOMAIN raw_response THEN raw_response.messages ELSE << >>

TotalResultsOf(raw_response) ==
    IF "total_results" \in DOMAIN raw_response THEN raw_response.total_results
    ELSE Len(MessagesOf(raw_response))

\* str.lower() on a character, and on a text
UpperLetters == <<"A", "B", "C", "D", "E", "F", "G", "H", "I", "J", "K", "L", "M", "N", "O", "P", "Q", "R", "S", "T", "U", "V", "W", "X", "Y", "Z">>
LowerLetters == <<"a", "b", "c", "d", "e", "f", "g", "h", "i", "j", "k", "l", "m", "n", "o", "p", "q", "r", "s", "t", "u", "v", "w", "x", "y", "z">>

AsciiLower(ch) ==
    IF \E i \in 1..26 : UpperLetters[i] = ch
    THEN LowerLetters[CHOOSE i \in 1..26 : UpperLetters[i] = ch]
    ELSE ch

LowerQuery(text) == [i \in 1..Len(text) |-> AsciiLower(text[i])]

\* the regex class \w
IsWordChar(ch) ==
    ch = "_" \/ ch \in Digits \/ \E i \in 1..26 : ch \in {UpperLetters[i], LowerLetters[i]}

\* the regex assertion \b between the characters i and i + 1 of text
AtWordBoundary(text, i) ==
    LET word(j) == j \in 1..Len(text) /\ IsWordChar(text[j])
    IN word(i) # word(i + 1)

\* env_patterns, lines 122-125, under re.IGNORECASE: the field names
\* followed by a colon, and the environment names
EnvFields == {<<"e", "n", "v", "i", "r", "o", "n", "m", "e", "n", "t", ":">>, <<"e", "n", "v", ":">>}

EnvKeywords ==
    {<<"d", "e", "v">>,
     <<"d", "e", "v", "e", "l", "o", "p", "m", "e", "n", "t">>,
     <<"s", "t", "a", "g", "i", "n", "g">>,
     <<"s", "t", "a", "g", "e">>,
     <<"t", "e", "s", "t">>,
     <<"q", "a">>,
     <<"u", "a", "t">>,
     <<"p", "r", "e", "p", "r", "o", "d">>,
     <<"p", "r", "o", "d">>,
     <<"p", "r", "o", "d", "u", "c", "t", "i", "o", "n">>}

\* re.search(r'\b<field>', query, re.IGNORECASE)
SearchesField(field, query) ==
    \E i \in 0..(Len(query) - Len(field)) :
        /\ AtWordBoundary(query, i)
        /\ LowerQuery(SubSeq(query, i + 1, i + Len(field))) = field

\* re.search(r'\b(dev|...|production)\b', query, re.IGNORECASE)
SearchesKeyword(query) ==
    \E word \in EnvKeywords :
        \E i \in 0..(Len(query) - Len(word)) :
            /\ AtWordBoundary(query, i)
            /\ LowerQuery(SubSeq(query, i + 1, i + Len(word))) = word
            /\ AtWordBoundary(query, i + Len(word))

\* _get_effective_filter(config): the filter built from the known
\* applications, else config.default_query_filter, else None
NoFilter == <<"<None>">>

\* _apply_default_filter(query, config) when the effective filter is
\* effective_filter
ApplyDefaultFilterAnywhere(query, effective_filter) ==
    IF effective_filter = NoFilter \/ effective_filter = << >>
    THEN query
    ELSE IF \/ \E field \in EnvFields : IsSubstring(field, LowerQuery(query))
            \/ \E word \in EnvKeywords : IsSubstring(word, LowerQuery(query))
    THEN query
    ELSE IF Strip(query) = <<"*">>
    THEN effective_filter
    ELSE <<"(">> \o effective_filter \o <<")", " ", "A", "N", "D", " ", "(">> \o query \o <<")">>

ApplyDefaultFilter(query, effective_filter) ==
    IF effective_filter = NoFilter \/ effective_filter = << >>
    THEN query
    ELSE IF (\E field \in EnvFields : SearchesField(field, query)) \/ SearchesKeyword(query)
    THEN query
    ELSE IF Strip(query) = <<"*">>
    THEN effective_filter
    ELSE <<"(">> \o effective_filter \o <<")", " ", "A", "N", "D", " ", "(">> \o query \o <<")">>

\* bool(v) is False for a JSON value inside a message record: a text, a
\* number, null (None), a list or an object
Falsy(v) ==
    \/ v = None
    \/ v.kind = "str" /\ v.text = ""
    \/ v.kind = "int" /\ v.value = 0
    \/ v.kind \in {"list", "dict"} /\ v.items = << >>

\* d.get(key) on a dict of <<key, value>> pairs
DictGet(d, key) ==
    LET hits == {i \in 1..Len(d.items) : d.items[i][1] = key}
    IN IF hits = {} THEN None ELSE d.items[CHOOSE i \in hits : TRUE][2]

\* msg.get("message", {})
MessageData(msg) == IF "message" \in DOMAIN msg THEN msg.message ELSE DictValue(<< >>)

\* message_data.get("level") or message_data.get("Level") or "unknown"
LevelOf(message_data) ==
    IF ~Falsy(DictGet(message_data, "level")) THEN DictGet(message_data, "level")
    ELSE IF ~Falsy(DictGet(message_data, "Level")) THEN DictGet(message_data, "Level")
    ELSE StrValue("unknown")

\* message_data.get("source") or message_data.get("application") or
\* message_data.get("service") or "unknown"
SourceOf(message_data) ==
    IF ~Falsy(DictGet(message_data, "source")) THEN DictGet(message_data, "source")
    ELSE IF ~Falsy(DictGet(message_data, "application"))
    THEN DictGet(message_data, "application")
    ELSE IF ~Falsy(DictGet(message_data, "service")) THEN DictGet(message_data, "service")
    ELSE StrValue("unknown")

\* hash(v) succeeds: lists and dicts cannot be dictionary keys
Hashable(v) == v.kind \notin {"list", "dict"}

\* one turn of the loop of _generate_search_hints, lines 354-361: .get on a
\* message that is not a dict raises AttributeError, counting under an
\* unhashable level or source raises TypeError
MessageFault(msg) ==
    IF MessageData(msg).kind # "dict" THEN "AttributeError"
    ELSE IF ~Hashable(LevelOf(MessageData(msg))) \/ ~Hashable(SourceOf(MessageData(msg)))
    THEN "TypeError"
    ELSE "ok"

\* how often each value occurs among values
Tally(values) ==
    [v \in {values[i] : i \in 1..Len(values)} |->
        Cardinality({i \in 1..Len(values) : values[i] = v})]

\* _generate_search_hints(messages, total_results, query): the breakdowns
\* and the truncation warning; the texts of the tips and the suggested
\* filters are left out
GenerateSearchHints(messages, total_results, query) ==
    LET faults == {i \in 1..Len(messages) : MessageFault(messages[i]) # "ok"}
        first == CHOOSE i \in faults : \A j \in faults : i <= j
    IN IF messages = << >>
       THEN [outcome |-> "ok", hints |-> [no_results |-> TRUE]]
       ELSE IF faults # {}
       THEN [outcome |-> MessageFault(messages[first]), hints |-> None]
       ELSE [outcome |-> "ok",
             hints |-> [level_breakdown |->
                            Tally([i \in 1..Len(messages) |-> LevelOf(MessageData(messages[i]))]),
                        source_breakdown |->
                            Tally([i \in 1..Len(messages) |-> SourceOf(MessageData(messages[i]))]),
                        truncated |-> total_results > Len(messages)]]

\* graylog_search(client, config, cache, query, from_time, to_time, limit,
\* include_env_filter) when the effective filter is effective_filter: the
\* clock reads clock1 when from_time is parsed and clock2 when to_time is
GraylogSearch(query, from_time, to_time, limit, include_env_filter, effective_filter, max_hours, backend, clock1, clock2) ==
    LET checked == GraylogValidateTimeRange(from_time, to_time, max_hours, clock1, clock2)
        effective_query == IF include_env_filter
                           THEN ApplyDefaultFilter(query, effective_filter)
                           ELSE query
        clamped == SearchLimit(limit)
        messages == MessagesOf(backend.data)
        total_results == TotalResultsOf(backend.data)
        request == GraylogSearchRequest(effective_query, from_time, to_time, clamped)
        hints == GenerateSearchHints(messages, total_results, query)
    IN IF checked.outcome # "ok"
       THEN [outcome |-> checked.outcome, posted |-> << >>, result |-> checked]
       ELSE IF request = NoRequest
       THEN [outcome |-> "InvalidQuery", posted |-> << >>, result |-> None]
       ELSE IF backend.outcome # "ok"
       THEN [outcome |-> backend.outcome, posted |-> <<request>>, result |-> None]
       ELSE IF hints.outcome # "ok"
       THEN [outcome |-> hints.outcome, posted |-> <<request>>, result |-> None]
       ELSE [outcome |-> "ok", posted |-> <<request>>,
             result |-> [total_results |-> total_results,
                         returned |-> Len(messages),
                         truncated |-> total_results > Len(messages),
                         messages |-> messages,
                         query |-> query,
                         effective_query |-> effective_query,
                         filter_applied |-> effective_query # query,
                         time_range |-> [from |-> checked.from_dt, to |-> checked.to_dt],
                         hints |-> hints.hints]]

\* graylog_search with include_env_filter left at its default and no
\* environment filter configured
GraylogSearchCall(query, from_time, to_time, limit, max_hours, backend, clock1, clock2) ==
    GraylogSearch(query, from_time, to_time, limit, TRUE, NoFilter, max_hours, backend,
                  clock1, clock2)

----------------------------------------------------------------------------
(* SpecRange: graylog_search and prometheus_query_range called with time    *)
(* bounds of every form, around the configured maximum of RangeMaxHours.    *)
(* Seconds since the epoch are the unit; the host's time zone is UTC.       *)

RangeTools == {"graylog_search", "prometheus_query_range"}

MaxSpan == RangeMaxHours * 3600

FromTimes ==
    {RelText(RangeMaxHours, "h"), RelText(RangeMaxHours + 1, "h"), NowText,
     IsoText(TimeBase - MaxSpan), IsoText(TimeBase - MaxSpan - GraylogToleranceSeconds),
     IsoText(TimeBase - MaxSpan - GraylogToleranceSeconds - 1),
     IsoZText(TimeBase - MaxSpan),
     UnixText(TimeBase - MaxSpan), UnixText(TimeBase - MaxSpan - 1),
     <<"x">>}

ToTimes ==
    {NowText, RelText(RangeMaxHours, "h"), IsoText(TimeBase), IsoZText(TimeBase),
     UnixText(TimeBase)}

\* a message record as Graylog returns it: the fields under "message"
LogMessage(id) == [message |-> DictValue(<< <<"_id", IntValue(id)>> >>)]

SearchBackends ==
    {BackendOk([messages |-> <<LogMessage(1)>>, total_results |-> 2]),
     BackendError("UpstreamServerError")}

RangeCalled(op, from_time, to_time, outcome, requests, result, clock1, clock2) ==
    [op |-> op, from |-> from_time, to |-> to_time, outcome |-> outcome,
     requests |-> requests, result |-> result, clock1 |-> clock1, clock2 |-> clock2,
     max_hours |-> RangeMaxHours]

InitRange ==
    /\ now = TimeBase
    /\ opCount = 0
    /\ last = NoCall
    /\ promCache = NewCache(ToolTTL, DefaultMaxSize)
    /\ glCache = NewCache(ToolTTL, DefaultMaxSize)
    /\ hist = EmptyStore
    /\ allowed = << >>
    /\ sent = << >>
    /\ req = NoHttpCall
    /\ CacheIdle
    /\ ManagerIdle
    /\ ServerIdle

SearchGraylog ==
    \E from_time \in FromTimes, to_time \in ToTimes, backend \in SearchBackends,
       drift \in {0, 1} :
        LET clock2 == now + drift
            r == GraylogSearchCall(<<"*">>, from_time, to_time, NoLimit, RangeMaxHours,
                                   backend, now, clock2)
        IN /\ opCount < RangeMaxCalls
           /\ opCount' = opCount + 1
           /\ now' = clock2
           /\ sent' = sent \o r.posted
           /\ last' = RangeCalled("graylog_search", from_time, to_time, r.outcome,
                                  Len(r.posted), r.result, now, clock2)
           /\ UNCHANGED <<allowed, OtherThanBackends>>

QueryPrometheusRange ==
    \E start \in FromTimes, end \in ToTimes, backend \in RangeBackends, drift \in {0, 1} :
        LET clock2 == now + drift
            r == RangeCall(promCache, <<"u", "p">>, start, end, NoStep, RangeMaxHours,
                           backend, now, clock2)
        IN /\ opCount < RangeMaxCalls
           /\ opCount' = opCount + 1
           /\ now' = clock2
           /\ promCache' = r.cache
           /\ sent' = IF r.requests = 1
                      THEN Append(sent, PromRangeRequest(<<"u", "p">>, start, end, NoStep))
                      ELSE sent
           /\ last' = RangeCalled("prometheus_query_range", start, end, r.outcome,
                                  r.requests, r.result, now, clock2)
           /\ UNCHANGED <<allowed, glCache, hist, cacheVars, mgrVars, req, serverVars>>

NextRange ==
    \/ SearchGraylog
    \/ QueryPrometheusRange

SpecRange == InitRange /\ [][NextRange]_vars

\* the instant a bound denotes when the clock reads clock, for the tool that
\* parses it
Denoted(op, s, clock) ==
    IF op = "graylog_search" THEN GraylogParseBound(s, clock) ELSE PromParseBound(s, clock)

\* a bound that is resolved against the clock
ClockRelative(s) == s = NowText \/ IsRelative(s)

\* the instants the bounds of a call denote: each as read when it was parsed,
\* except that two clock-relative bounds are taken against one reading of the
\* clock, so that '-1h' .. 'now' spans one hour and '-1h' .. '-1h' nothing
FromInstant(call) ==
    Denoted(call.op, call.from,
            IF ClockRelative(call.from) /\ ClockRelative(call.to)
            THEN call.clock2 ELSE call.clock1)

ToInstant(call) == Denoted(call.op, call.to, call.clock2)

\* C9: for bounds that parse, with from before to: when the span to - from
\* is at most max_hours (plus 36 seconds for graylog_search) validation
\* passes, '-<max_hours>h' .. 'now' included; when it is larger the call
\* fails with TimeRangeExceeded carrying the computed span and max_hours, and
\* no request reaches the backend.
RangeValidatedBySpan ==
    last.op \in RangeTools =>
        LET from_at == FromInstant(last)
            to_at == ToInstant(last)
            tolerance == IF last.op = "graylog_search" THEN GraylogToleranceSeconds ELSE 0
        IN (from_at # NoDateTime /\ to_at # NoDateTime /\ from_at.secs < to_at.secs) =>
              IF to_at.secs - from_at.secs <= last.max_hours * 3600 + tolerance
              THEN last.outcome \notin {"InvalidQuery", "TypeError", "TimeRangeExceeded"}
              ELSE /\ last.outcome = "TimeRangeExceeded"
                   /\ last.result.requested_seconds
                          = to_at.secs - Denoted(last.op, last.from, last.clock1).secs
                   /\ last.result.max_hours = last.max_hours
                   /\ last.requests = 0

\* C10: for bounds that parse, with from at the same instant as to or later,
\* the call fails with InvalidQuery and no request reaches the backend.
RangeOrderRejected ==
    last.op \in RangeTools =>
        LET from_at == FromInstant(last)
            to_at == ToInstant(last)
        IN (from_at # NoDateTime /\ to_at # NoDateTime /\ from_at.secs >= to_at.secs) =>
              /\ last.outcome = "InvalidQuery"
              /\ last.requests = 0

----------------------------------------------------------------------------
(* tools/prometheus.py: prometheus_query, and clients/prometheus.py: query  *)

NoTime == <<"<None>">>

\* PrometheusClient.query: the request sent ("if time:" skips None and the
\* empty text), or none when the time does not parse
PromQueryRequest(query, time) ==
    IF time = NoTime \/ Len(time) = 0
    THEN [kind |-> "query", query |-> query]
    ELSE IF PromClientParseTime(time) = ClientInvalid THEN NoRequest
    ELSE [kind |-> "query", query |-> query, time |-> PromClientParseTime(time)]

\* prometheus_query(client, config, cache, query, time)
PromQueryCall(query, time, backend) ==
    LET request == PromQueryRequest(query, time)
    IN IF request = NoRequest
       THEN [outcome |-> "InvalidQuery", posted |-> << >>, result |-> None]
       ELSE IF backend.outcome # "ok"
       THEN [outcome |-> backend.outcome, posted |-> <<request>>, result |-> None]
       ELSE [outcome |-> "ok", posted |-> <<request>>, result |-> backend.data]

----------------------------------------------------------------------------
(* SpecTimes: the three tools that take time arguments, called with texts   *)
(* of every shape                                                           *)

TimeTools == {"graylog_search", "prometheus_query", "prometheus_query_range"}

TimeTexts ==
    {NowText, RelText(1, "h"), UnixText(TimeBase - 60), IsoText(TimeBase - 60),
     <<"-", "1", "w">>, <<"-", "h">>, <<"-", "5">>, <<"x">>, << >>}

TimeCalled(op, times, outcome, posted) ==
    [op |-> op, times |-> times, outcome |-> outcome, requests |-> Len(posted),
     posted |-> posted]

InitTimes ==
    /\ now = TimeBase
    /\ opCount = 0
    /\ last = NoCall
    /\ promCache = NewCache(ToolTTL, DefaultMaxSize)
    /\ glCache = NewCache(ToolTTL, DefaultMaxSize)
    /\ hist = EmptyStore
    /\ allowed = << >>
    /\ sent = << >>
    /\ req = NoHttpCall
    /\ CacheIdle
    /\ ManagerIdle
    /\ ServerIdle

TimedInstantQuery ==
    \E time \in TimeTexts \cup {NoTime}, backend \in RangeBackends :
        LET r == PromQueryCall(<<"u", "p">>, time, backend)
        IN /\ opCount < TimesMaxCalls
           /\ opCount' = opCount + 1
           /\ sent' = sent \o r.posted
           /\ last' = TimeCalled("prometheus_query", <<time>>, r.outcome, r.posted)
           /\ UNCHANGED <<now, allowed, OtherThanBackends>>

TimedRangeQuery ==
    \E start \in TimeTexts, end \in TimeTexts, backend \in RangeBackends :
        LET r == RangeCall(promCache, <<"u", "p">>, start, end, NoStep, RangeMaxHours,
                           backend, now, now)
            posted == IF r.requests = 1
                      THEN <<PromRangeRequest(<<"u", "p">>, start, end, NoStep)>>
                      ELSE << >>
        IN /\ opCount < TimesMaxCalls
           /\ opCount' = opCount + 1
           /\ promCache' = r.cache
           /\ sent' = sent \o posted
           /\ last' = TimeCalled("prometheus_query_range", <<start, end>>, r.outcome, posted)
           /\ UNCHANGED <<now, allowed, glCache, hist, cacheVars, mgrVars, req, serverVars>>

TimedSearch ==
    \E from_time \in TimeTexts, to_time \in TimeTexts, backend \in SearchBackends :
        LET r == GraylogSearchCall(<<"*">>, from_time, to_time, NoLimit, RangeMaxHours,
                                   backend, now, now)
        IN /\ opCount < TimesMaxCalls
           /\ opCount' = opCount + 1
           /\ sent' = sent \o r.posted
           /\ last' = TimeCalled("graylog_search", <<from_time, to_time>>, r.outcome,
                                 r.posted)
           /\ UNCHANGED <<now, allowed, OtherThanBackends>>

NextTimes ==
    \/ TimedInstantQuery
    \/ TimedRangeQuery
    \/ TimedSearch

SpecTimes == InitTimes /\ [][NextTimes]_vars

\* a time text of one of the accepted forms: now, -<N><unit>, an ISO-8601
\* timestamp, or (for the Prometheus tools) a Unix epoch
AcceptedTimeForm(op, s) ==
    \/ s = NowText
    \/ /\ Len(s) >= 3
       /\ s[1] = "-"
       /\ s[Len(s)] \in {"m", "h", "d"}
       /\ \A i \in 2..(Len(s) - 1) : s[i] \in Digits
    \/ /\ Len(s) >= 2
       /\ s[1] = "T"
       /\ \A i \in 2..(Len(s) - 1) : s[i] \in Digits
       /\ s[Len(s)] \in Digits \cup {"Z"}
    \/ /\ op # "graylog_search"
       /\ Len(s) >= 1
       /\ \A i \in 2..Len(s) : s[i] \in Digits
       /\ s[1] \in Digits \/ (s[1] = "-" /\ Len(s) >= 2)

\* C11: a call whose time argument has none of the accepted forms fails with
\* InvalidQuery and no request reaches the backend.
MalformedTimeRejected ==
    (last.op \in TimeTools
        /\ \E i \in DOMAIN last.times :
              last.times[i] # NoTime /\ ~AcceptedTimeForm(last.op, last.times[i])) =>
        /\ last.outcome = "InvalidQuery"
        /\ last.requests = 0

----------------------------------------------------------------------------
(* SpecListing: the catalog tools and graylog_search, called with every     *)
(* kind of limit against backends answering with every kind of payload      *)

ListingPatterns == {NoPattern, <<"a">>}
ListingLimits == {-1, 0, 2, MaxCatalogLimit + 1}

SearchLimits == {NoLimit, IntValue(-1), IntValue(5), IntValue(GraylogMaxResults + 1)}

SearchPayloads ==
    {[messages |-> <<LogMessage(1), LogMessage(2)>>, total_results |-> 5],
     [messages |-> <<LogMessage(1), LogMessage(2)>>],
     [messages |-> <<LogMessage(1)>>, total_results |-> 0],
     [messages |-> << >>, total_results |-> 0],
     [total_results |-> 3]}

ListingSearchBackends ==
    {BackendOk(d) : d \in SearchPayloads} \cup {BackendError(e) : e \in BackendErrors}

InitListing ==
    /\ now = TimeBase
    /\ opCount = 0
    /\ last = NoCall
    /\ promCache = NewCache(ToolTTL, DefaultMaxSize)
    /\ glCache = NewCache(ToolTTL, DefaultMaxSize)
    /\ hist = [catalog |-> [t \in CatalogTools |-> Absent], range |-> EmptyStore]
    /\ allowed = << >>
    /\ sent = << >>
    /\ req = NoHttpCall
    /\ CacheIdle
    /\ ManagerIdle
    /\ ServerIdle

\* the catalog a call works from, as the history has it: the one fetched
\* earlier and still stored, else the one the backend gives now
CatalogInEffect(tool, backend, t) ==
    IF Fresh(hist.catalog[tool], t, ToolTTL) THEN hist.catalog[tool].val ELSE backend.data

Listed(op, pattern, limit, r, catalog) ==
    [op |-> op, pattern |-> pattern, limit |-> limit, outcome |-> r.outcome,
     requests |-> r.requests, result |-> r.result, catalog |-> catalog]

ListMetrics ==
    \E pattern \in ListingPatterns, limit \in ListingLimits, backend \in MetricsBackends :
        LET r == MetricsCall(promCache, pattern, limit, backend, now)
        IN /\ opCount < ListingMaxCalls
           /\ opCount' = opCount + 1
           /\ promCache' = r.cache
           /\ last' = Listed("prometheus_metrics", pattern, limit, r,
                             CatalogInEffect("prometheus_metrics", backend, now))
           /\ hist' = IF r.requests = 1 /\ backend.outcome = "ok"
                      THEN [hist EXCEPT !.catalog["prometheus_metrics"] =
                                            [at |-> now, val |-> backend.data]]
                      ELSE hist
           /\ UNCHANGED <<now, glCache, OtherThanTools>>

ListFields ==
    \E pattern \in ListingPatterns, limit \in ListingLimits, backend \in FieldsBackends :
        LET r == FieldsCall(glCache, pattern, limit, backend, now)
        IN /\ opCount < ListingMaxCalls
           /\ opCount' = opCount + 1
           /\ glCache' = r.cache
           /\ last' = Listed("graylog_fields", pattern, limit, r,
                             FieldsOf(CatalogInEffect("graylog_fields", backend, now)))
           /\ hist' = IF r.requests = 1 /\ backend.outcome = "ok"
                      THEN [hist EXCEPT !.catalog["graylog_fields"] =
                                            [at |-> now, val |-> backend.data]]
                      ELSE hist
           /\ UNCHANGED <<now, promCache, OtherThanTools>>

SearchLogs ==
    \E limit \in SearchLimits, backend \in ListingSearchBackends :
        LET r == GraylogSearchCall(<<"*">>, RelText(1, "h"), NowText, limit, RangeMaxHours,
                                   backend, now, now)
        IN /\ opCount < ListingMaxCalls
           /\ opCount' = opCount + 1
           /\ sent' = sent \o r.posted
           /\ last' = [op |-> "graylog_search", limit |-> limit, outcome |-> r.outcome,
                       requests |-> Len(r.posted), result |-> r.result,
                       posted |-> r.posted, payload |-> backend.data]
           /\ UNCHANGED <<now, allowed, OtherThanBackends>>

NextListing ==
    \/ ListMetrics
    \/ ListFields
    \/ SearchLogs

SpecListing == InitListing /\ [][NextListing]_vars

\* C12: in every successful response of graylog_fields and prometheus_metrics
\* count is the number of entries and truncated = (total_available > count);
\* in every successful response of graylog_search returned is the number of
\* messages and truncated = (total_results > returned).
TruncatedFlagExact ==
    /\ (last.op \in CatalogTools /\ last.outcome = "ok") =>
          /\ last.result.count = Len(last.result.entries)
          /\ last.result.truncated = (last.result.total_available > last.result.count)
    /\ (last.op = "graylog_search" /\ last.outcome = "ok") =>
          /\ last.result.returned = Len(last.result.messages)
          /\ last.result.truncated = (last.result.total_results > last.result.returned)

\* C12 witness: a catalog listing served from the cache that gives fewer
\* entries than are available and says so
TruncatedFlagExactWitness ==
    /\ last.op = "prometheus_metrics"
    /\ last.outcome = "ok"
    /\ last.result.cached
    /\ last.result.count = 2
    /\ last.result.total_available = 3
    /\ last.result.truncated

\* C13: a successful graylog_search response has returned <= total_results.
ReturnedWithinTotal ==
    (last.op = "graylog_search" /\ last.outcome = "ok") =>
        last.result.returned <= last.result.total_results

\* C16: the limit graylog_search sends to the backend is min(limit,
\* max_results), with default_results for a missing limit; it never exceeds
\* max_results.
SearchLimitClamped ==
    (last.op = "graylog_search" /\ last.requests = 1) =>
        LET asked == IF last.limit = None THEN GraylogDefaultResults ELSE last.limit.value
        IN /\ last.posted[1].limit = (IF asked < GraylogMaxResults THEN asked
                                      ELSE GraylogMaxResults)
           /\ last.posted[1].limit <= GraylogMaxResults

\* C16 witness: a limit above max_results was asked and max_results was sent
SearchLimitClampedWitness ==
    /\ last.op = "graylog_search"
    /\ last.requests = 1
    /\ last.limit = IntValue(GraylogMaxResults + 1)
    /\ last.posted[1].limit = GraylogMaxResults
    /\ sent # << >>

----------------------------------------------------------------------------
(* SpecLarge: the catalog tools called once against catalogs around the     *)
(* maximum number of entries a listing may return                           *)

\* the name numbered n: n written with NameLength binary digits a and b, so
\* that names sort as their numbers do
RECURSIVE NumberedName(_, _)
NumberedName(n, length) ==
    IF length = 0 THEN << >>
    ELSE Append(NumberedName(n \div 2, length - 1), IF n % 2 = 0 THEN "a" ELSE "b")

LargeSizes == {2, MaxCatalogLimit, MaxCatalogLimit + 1}
LargeLimits == {0, 1, MaxCatalogLimit - 1, MaxCatalogLimit, MaxCatalogLimit + 1,
                MaxCatalogLimit + 2}
LargePatterns == {NoPattern, <<"B", "a">>, <<"b", "b", "b">>}

\* the name at position i of a catalog of size names: the greatest name
\* first, the other names after it in ascending order
LargeName(i, size) == NumberedName(IF i = 1 THEN size - 1 ELSE i - 2, NameLength)

LargeMetrics(size) == ListValue([i \in 1..size |-> LargeName(i, size)])

LargeFields(size) ==
    [fields |-> DictValue([i \in 1..size |->
                              <<LargeName(i, size),
                               [kind |-> "str", text |-> "string"]>>])]

InitLarge ==
    /\ now = TimeBase
    /\ opCount = 0
    /\ last = NoCall
    /\ promCache = NewCache(ToolTTL, DefaultMaxSize)
    /\ glCache = NewCache(ToolTTL, DefaultMaxSize)
    /\ hist = [catalog |-> [t \in CatalogTools |-> Absent], range |-> EmptyStore]
    /\ allowed = << >>
    /\ sent = << >>
    /\ req = NoHttpCall
    /\ CacheIdle
    /\ ManagerIdle
    /\ ServerIdle

ListLargeMetrics ==
    \E pattern \in LargePatterns, limit \in LargeLimits, size \in LargeSizes :
        LET backend == BackendOk(LargeMetrics(size))
            r == MetricsCall(promCache, pattern, limit, backend, now)
        IN /\ opCount < LargeMaxCalls
           /\ opCount' = opCount + 1
           /\ promCache' = r.cache
           /\ last' = Listed("prometheus_metrics", pattern, limit, r,
                             CatalogInEffect("prometheus_metrics", backend, now))
           /\ hist' = [hist EXCEPT !.catalog["prometheus_metrics"] =
                                       [at |-> now, val |-> backend.data]]
           /\ UNCHANGED <<now, glCache, OtherThanTools>>

ListLargeFields ==
    \E pattern \in LargePatterns, limit \in LargeLimits, size \in LargeSizes :
        LET backend == BackendOk(LargeFields(size))
            r == FieldsCall(glCache, pattern, limit, backend, now)
        IN /\ opCount < LargeMaxCalls
           /\ opCount' = opCount + 1
           /\ glCache' = r.cache
           /\ last' = Listed("graylog_fields", pattern, limit, r,
                             FieldsOf(CatalogInEffect("graylog_fields", backend, now)))
           /\ hist' = [hist EXCEPT !.catalog["graylog_fields"] =
                                       [at |-> now, val |-> backend.data]]
           /\ UNCHANGED <<now, promCache, OtherThanTools>>

NextLarge ==
    \/ ListLargeMetrics
    \/ ListLargeFields

SpecLarge == InitLarge /\ [][NextLarge]_vars

\* C14: a catalog listing returns at most min(limit, 500) entries.
CountWithinClampedLimit ==
    (last.op \in CatalogTools /\ last.outcome = "ok") =>
        /\ last.result.count <= last.limit
        /\ last.result.count <= MaxCatalogLimit

\* the names of a catalog, and the names of the entries of a listing
CatalogNames(catalog) ==
    IF catalog.kind = "dict" THEN {catalog.items[i][1] : i \in DOMAIN catalog.items}
    ELSE {catalog.items[i] : i \in DOMAIN catalog.items}

EntryNames(op, entries) ==
    IF op = "graylog_fields" THEN [i \in DOMAIN entries |-> entries[i].name] ELSE entries

\* C15: for a limit n >= 0 the entries of a catalog listing are the first
\* min(n, 500) names, in ascending order, of the names of the catalog that
\* match the pattern ignoring case (all names without a pattern), and
\* total_available is the number of matching names.
ListingIsSortedFilteredPrefix ==
    (last.op \in CatalogTools /\ last.outcome = "ok" /\ last.limit >= 0) =>
        LET matching == {n \in CatalogNames(last.catalog) :
                            ~Filters(last.pattern) \/ PatternSearch(last.pattern, n)}
            names == EntryNames(last.op, last.result.entries)
            clamped == IF last.limit < MaxCatalogLimit THEN last.limit ELSE MaxCatalogLimit
            given == {names[i] : i \in DOMAIN names}
        IN /\ last.result.total_available = Cardinality(matching)
           /\ Len(names) = (IF clamped < Cardinality(matching) THEN clamped
                            ELSE Cardinality(matching))
           /\ given \subseteq matching
           /\ \A i \in 1..(Len(names) - 1) : TextLess(names[i], names[i + 1])
           /\ \A n \in matching \ given : \A i \in DOMAIN names : TextLess(names[i], n)

----------------------------------------------------------------------------
(* clients/base.py: BaseHTTPClient._request.  One get/post call is a chain  *)
(* of attempts; each attempt sends the request and meets one backend        *)
(* outcome, and a retry sleeps before the next attempt.                     *)

\* what one attempt can meet: a response by status class, an
\* httpx.RequestError that is not a timeout, or an httpx.TimeoutException
HttpOutcomes == {"2xx", "4xx", "5xx", "network", "timeout"}

\* a retry counter that allows one retry more than max_retries
CanRetryOnceMore(retry_count, max_retries) == retry_count <= max_retries

\* "if retry_count < self.max_retries"
CanRetry(retry_count, max_retries) == retry_count < max_retries

\* "await asyncio.sleep(2**retry_count)"
Backoff(retry_count) == 2 ^ retry_count

\* the request after one attempt of _request met outcome
AfterAttempt(r, outcome) ==
    LET met == [r EXCEPT !.outcomes = Append(r.outcomes, outcome)]
        raised(code) == [met EXCEPT !.phase = "raised", !.result = code]
    IN CASE outcome = "2xx" -> [met EXCEPT !.phase = "returned", !.result = "response"]
         [] outcome = "4xx" -> raised("UpstreamClientError")
         [] outcome = "timeout" -> raised("UpstreamTimeout")
         [] outcome \in {"5xx", "network"} ->
                IF CanRetry(r.retry_count, r.max_retries)
                THEN [met EXCEPT !.phase = "sleeping"]
                ELSE raised("UpstreamServerError")

\* the sleep before a retry is over: _request calls itself with
\* retry_count + 1
AfterSleep(r) ==
    [r EXCEPT !.phase = "requesting",
              !.slept = Append(r.slept, Backoff(r.retry_count)),
              !.retry_count = r.retry_count + 1]

----------------------------------------------------------------------------
(* SpecRetry: get/post calls of one client against a backend that answers   *)
(* each attempt with any outcome                                            *)

HttpMethods == {"GET", "POST"}
RetryLimits == {0, 1, MaxRetries}

InitRetry ==
    /\ now = 0
    /\ opCount = 0
    /\ last = NoCall
    /\ allowed = << >>
    /\ sent = << >>
    /\ req = NoHttpCall
    /\ CacheIdle
    /\ ManagerIdle
    /\ promCache = NewCache(0, 0)
    /\ glCache = NewCache(0, 0)
    /\ hist = EmptyStore
    /\ ServerIdle

HttpDone == req.phase \in {"idle", "returned", "raised"}

\* get(path) / post(path): _request starts with retry_count = 0
HttpCall ==
    \E method \in HttpMethods, max_retries \in RetryLimits :
        /\ HttpDone
        /\ opCount < RetryMaxCalls
        /\ opCount' = opCount + 1
        /\ req' = [NoHttpCall EXCEPT !.phase = "requesting", !.method = method,
                                     !.max_retries = max_retries]
        /\ UNCHANGED <<now, last, sent, allowed, cacheVars, mgrVars, toolVars, serverVars>>

\* client.request(...) and the handling of what it gave
HttpAttempt ==
    \E outcome \in HttpOutcomes :
        /\ req.phase = "requesting"
        /\ sent' = Append(sent, [method |-> req.method, path |-> "/path"])
        /\ req' = AfterAttempt(req, outcome)
        /\ UNCHANGED <<now, last, opCount, allowed, cacheVars, mgrVars, toolVars, serverVars>>

\* asyncio.sleep(2**retry_count) returns
HttpSleep ==
    /\ req.phase = "sleeping"
    /\ now' = now + Backoff(req.retry_count)
    /\ req' = AfterSleep(req)
    /\ UNCHANGED <<last, opCount, sent, allowed, cacheVars, mgrVars, toolVars, serverVars>>

NextRetry ==
    \/ HttpCall
    \/ HttpAttempt
    \/ HttpSleep

SpecRetry == InitRetry /\ [][NextRetry]_vars

\* the delays 1, 2, 4, ... of the first n retries
Delays(n) == [k \in 1..n |-> 2 ^ (k - 1)]

Retried == {"5xx", "network"}

\* C17: a get/post call makes at most max_retries + 1 attempts; only 5xx
\* responses and network errors are followed by another attempt, retry k + 1
\* comes 2^k seconds after the failure before it, a 2xx ends the call with the
\* response, a 4xx ends it with UpstreamClientError, and a 5xx or network
\* error that ends it has used max_retries retries and gives
\* UpstreamServerError.
RetryBounded ==
    LET n == Len(req.outcomes)
        final == req.outcomes[n]
    IN /\ n <= req.max_retries + 1
       /\ \A i \in 1..(n - 1) : req.outcomes[i] \in Retried
       /\ req.retry_count <= req.max_retries
       /\ req.slept = Delays(req.retry_count)
       /\ req.phase = "requesting" => n = req.retry_count
       /\ req.phase = "sleeping" => n = req.retry_count + 1 /\ final \in Retried
       /\ req.phase \in {"returned", "raised"} =>
              /\ n = req.retry_count + 1
              /\ final = "2xx" <=> req.phase = "returned"
              /\ final = "4xx" <=> req.result = "UpstreamClientError"
              /\ final \in Retried <=> req.result = "UpstreamServerError"
              /\ final \in Retried => req.retry_count = req.max_retries

\* C17 witness: with max_retries = 3 a call that met 5xx responses and
\* network errors only has slept 1, 2 and 4 seconds and ended in
\* UpstreamServerError after four attempts.
RetryBoundedWitness ==
    /\ req.phase = "raised"
    /\ req.result = "UpstreamServerError"
    /\ req.max_retries = MaxRetries
    /\ Len(req.outcomes) = MaxRetries + 1
    /\ \E i, j \in DOMAIN req.outcomes : req.outcomes[i] = "5xx" /\ req.outcomes[j] = "network"
    /\ req.slept = <<1, 2, 4>>

\* C18: a call ends in UpstreamTimeout only when its retries are used up.
TimeoutOnlyAfterRetries ==
    (req.phase = "raised" /\ req.result = "UpstreamTimeout") =>
        req.retry_count = req.max_retries

----------------------------------------------------------------------------
(* SpecSearch: graylog_search called with queries that do and do not name   *)
(* an environment, with and without an effective filter, and answered with  *)
(* message lists of every shape.                                            *)

EnvFilterText == <<"e", "n", "v", ":", "p">>

EffectiveFilters == {NoFilter, << >>, EnvFilterText}

FilterQueries ==
    {<<"*">>,
     <<" ", "*", " ">>,
     <<"e", "r", "r">>,
     <<"e", "n", "v", ":", "x">>,
     <<"E", "N", "V", ":", "x">>,
     <<"m", "y", "e", "n", "v", ":", "x">>,
     <<"a", "_", "e", "n", "v", ":", "x">>,
     <<"E", "n", "v", "i", "r", "o", "n", "m", "e", "n", "t", ":", "x">>,
     <<"p", "r", "o", "d">>,
     <<"P", "r", "e", "-", "P", "r", "o", "d">>,
     <<"l", "a", "t", "e", "s", "t">>,
     <<"q", "a", "2">>}

\* message lists: none, records with and without level and source, a record
\* without a message field, and message fields that are a text, null, a
\* list, a number, and an object whose level is a list
MessagePayloads ==
    {[messages |-> << >>, total_results |-> 0],
     [messages |-> <<[message |-> DictValue(<< <<"level", StrValue("ERROR")>>,
                                                <<"source", StrValue("web")>> >>)],
                     [message |-> DictValue(<< >>)]>>,
      total_results |-> 3],
     [messages |-> <<[index |-> StrValue("graylog_0")]>>],
     [messages |-> <<[message |-> StrValue("disk full")]>>],
     [messages |-> <<[message |-> None]>>],
     [messages |-> <<[message |-> ListValue(<< >>)]>>],
     [messages |-> <<[message |-> IntValue(1)]>>],
     [messages |-> <<[message |-> DictValue(<< <<"level", ListValue(<<StrValue("x")>>)>> >>)]>>]}

Searched(query, include_env_filter, effective_filter, r, backend) ==
    [op |-> "graylog_search", query |-> query, include_env_filter |-> include_env_filter,
     effective_filter |-> effective_filter, outcome |-> r.outcome, posted |-> r.posted,
     result |-> r.result, payload |-> backend]

InitSearch ==
    /\ now = TimeBase
    /\ opCount = 0
    /\ last = NoCall
    /\ promCache = NewCache(ToolTTL, DefaultMaxSize)
    /\ glCache = NewCache(ToolTTL, DefaultMaxSize)
    /\ hist = EmptyStore
    /\ allowed = << >>
    /\ sent = << >>
    /\ req = NoHttpCall
    /\ CacheIdle
    /\ ManagerIdle
    /\ ServerIdle

SearchWithFilter ==
    \E query \in FilterQueries, include_env_filter \in BOOLEAN,
       effective_filter \in EffectiveFilters, backend \in SearchBackends :
        LET r == GraylogSearch(query, RelText(1, "h"), NowText, NoLimit, include_env_filter,
                               effective_filter, RangeMaxHours, backend, now, now)
        IN /\ opCount < SearchMaxCalls
           /\ opCount' = opCount + 1
           /\ sent' = sent \o r.posted
           /\ last' = Searched(query, include_env_filter, effective_filter, r, backend)
           /\ UNCHANGED <<now, allowed, OtherThanBackends>>

SearchMessages ==
    \E data \in MessagePayloads :
        LET r == GraylogSearch(<<"*">>, RelText(1, "h"), NowText, NoLimit, TRUE, NoFilter,
                               RangeMaxHours, BackendOk(data), now, now)
        IN /\ opCount < SearchMaxCalls
           /\ opCount' = opCount + 1
           /\ sent' = sent \o r.posted
           /\ last' = Searched(<<"*">>, TRUE, NoFilter, r, BackendOk(data))
           /\ UNCHANGED <<now, allowed, OtherThanBackends>>

NextSearch ==
    \/ SearchWithFilter
    \/ SearchMessages

SpecSearch == InitSearch /\ [][NextSearch]_vars

\* C22: whatever list of message records the backend returns, a
\* graylog_search call that got the backend's answer succeeds - hint
\* generation raises nothing - and its response carries the backend's
\* messages unchanged, in the same order.
HintsNeverRaise ==
    (last.op = "graylog_search" /\ last.posted # << >> /\ last.payload.outcome = "ok") =>
        /\ last.outcome = "ok"
        /\ last.result.messages = MessagesOf(last.payload.data)

\* what a search call's effective query is to be, given whether its query
\* counts as naming an environment
ExpectedQuery(call, named) ==
    IF ~call.include_env_filter \/ call.effective_filter \in {NoFilter, << >>}
    THEN call.query
    ELSE IF named THEN call.query
    ELSE IF Strip(call.query) = <<"*">> THEN call.effective_filter
    ELSE <<"(">> \o call.effective_filter \o <<")", " ", "A", "N", "D", " ", "(">>
             \o call.query \o <<")">>

\* a search call that reached the backend sent the expected query, and its
\* response reports it, with filter_applied telling whether it differs
FilterRuleHolds(call, named) ==
    (call.op = "graylog_search" /\ call.posted # << >>) =>
        /\ call.posted[1].query = ExpectedQuery(call, named)
        /\ call.outcome = "ok" =>
               /\ call.result.effective_query = ExpectedQuery(call, named)
               /\ call.result.filter_applied = (ExpectedQuery(call, named) # call.query)

\* the query contains environment:, env: or an environment keyword, in any
\* case, anywhere in its text
NamesEnvironmentAnywhere(query) ==
    \/ \E field \in EnvFields : IsSubstring(field, LowerQuery(query))
    \/ \E word \in EnvKeywords : IsSubstring(word, LowerQuery(query))

\* the words of a text: its maximal runs of letters, digits and underscores
WordsOf(text) ==
    LET inside(i) == i \in 1..Len(text) /\ IsWordChar(text[i])
    IN {run \in (1..Len(text)) \X (1..Len(text)) :
            /\ run[1] <= run[2]
            /\ \A k \in run[1]..run[2] : inside(k)
            /\ ~inside(run[1] - 1)
            /\ ~inside(run[2] + 1)}

\* one of the words of the query is an environment keyword, or is env or
\* environment and is followed by a colon, in any case
NamesEnvironmentAsWord(query) ==
    \E run \in WordsOf(query) :
        LET word == LowerQuery(SubSeq(query, run[1], run[2]))
        IN \/ word \in EnvKeywords
           \/ /\ run[2] < Len(query)
              /\ Append(word, query[run[2] + 1]) \in EnvFields

----------------------------------------------------------------------------
(* SpecGuard: the four tools that validate their arguments, called with     *)
(* arguments that pass and arguments that fail validation, against caches   *)
(* that hold entries of earlier calls, some of them expired.  Range bounds  *)
(* are absolute and lie before and after the time of the call.              *)

GuardSpan == GuardMaxHours * 3600

\* the time of the first call
GuardEpoch == TimeBase + GuardSpan

GuardPatterns == {NoPattern, <<"(">>}
GuardStarts ==
    {UnixText(GuardEpoch - GuardSpan), UnixText(GuardEpoch - GuardSpan \div 2), <<"x">>}
GuardEnds ==
    {UnixText(GuardEpoch), UnixText(GuardEpoch + GuardSpan \div 2),
     UnixText(GuardEpoch - GuardSpan)}
GuardFroms ==
    {IsoText(GuardEpoch - GuardSpan), IsoText(GuardEpoch - GuardSpan - 100), <<"x">>}

GuardMetricsBackends == {BackendOk(ListValue(<< <<"a">> >>)), BackendError("UpstreamServerError")}
GuardFieldsBackends ==
    {BackendOk([fields |-> DictValue(<< << <<"a">>, StrValue("long") >> >>)]),
     BackendError("UpstreamServerError")}
GuardRangeBackends == {BackendOk(ResultValue(1)), BackendError("UpstreamServerError")}

GuardCalled(op, args, outcome, requests, t) ==
    [op |-> op, args |-> args, outcome |-> outcome, requests |-> requests, at |-> t]

\* the requests a catalog tool makes: one GET, or none
CatalogRequests(op, requests) == [i \in 1..requests |-> [kind |-> "get", tool |-> op]]

InitGuard ==
    /\ now = GuardEpoch
    /\ opCount = 0
    /\ last = NoCall
    /\ promCache = NewCache(GuardTTL, DefaultMaxSize)
    /\ glCache = NewCache(GuardTTL, DefaultMaxSize)
    /\ hist = EmptyStore
    /\ allowed = << >>
    /\ sent = << >>
    /\ req = NoHttpCall
    /\ CacheIdle
    /\ ManagerIdle
    /\ ServerIdle

GuardTick ==
    /\ now < GuardEpoch + GuardMaxTime
    /\ now' = now + 1
    /\ UNCHANGED AllButNow

GuardMetrics ==
    \E pattern \in GuardPatterns, backend \in GuardMetricsBackends :
        LET r == MetricsCall(promCache, pattern, 2, backend, now)
        IN /\ opCount < GuardMaxCalls
           /\ opCount' = opCount + 1
           /\ promCache' = r.cache
           /\ sent' = sent \o CatalogRequests("prometheus_metrics", r.requests)
           /\ last' = GuardCalled("prometheus_metrics", <<pattern>>, r.outcome, r.requests, now)
           /\ UNCHANGED <<now, allowed, glCache, hist, cacheVars, mgrVars, req, serverVars>>

GuardFields ==
    \E pattern \in GuardPatterns, backend \in GuardFieldsBackends :
        LET r == FieldsCall(glCache, pattern, 2, backend, now)
        IN /\ opCount < GuardMaxCalls
           /\ opCount' = opCount + 1
           /\ glCache' = r.cache
           /\ sent' = sent \o CatalogRequests("graylog_fields", r.requests)
           /\ last' = GuardCalled("graylog_fields", <<pattern>>, r.outcome, r.requests, now)
           /\ UNCHANGED <<now, allowed, promCache, hist, cacheVars, mgrVars, req, serverVars>>

GuardRange ==
    \E start \in GuardStarts, end \in GuardEnds, backend \in GuardRangeBackends :
        LET r == RangeCall(promCache, <<"u", "p">>, start, end, NoStep, GuardMaxHours,
                           backend, now, now)
        IN /\ opCount < GuardMaxCalls
           /\ opCount' = opCount + 1
           /\ promCache' = r.cache
           /\ sent' = IF r.requests = 1
                      THEN Append(sent, PromRangeRequest(<<"u", "p">>, start, end, NoStep))
                      ELSE sent
           /\ last' = GuardCalled("prometheus_query_range", <<start, end>>, r.outcome,
                                  r.requests, now)
           /\ UNCHANGED <<now, allowed, glCache, hist, cacheVars, mgrVars, req, serverVars>>

GuardSearch ==
    \E from_time \in GuardFroms, backend \in SearchBackends :
        LET r == GraylogSearchCall(<<"*">>, from_time, IsoText(GuardEpoch), NoLimit,
                                   GuardMaxHours, backend, now, now)
        IN /\ opCount < GuardMaxCalls
           /\ opCount' = opCount + 1
           /\ sent' = sent \o r.posted
           /\ last' = GuardCalled("graylog_search", <<from_time>>, r.outcome, Len(r.posted),
                                  now)
           /\ UNCHANGED <<now, allowed, OtherThanBackends>>

NextGuard ==
    \/ GuardTick
    \/ GuardMetrics
    \/ GuardFields
    \/ GuardRange
    \/ GuardSearch

SpecGuard == InitGuard /\ [][NextGuard]_vars

\* the errors validation raises
ValidationFailures == {"InvalidQuery", "TimeRangeExceeded", "InvalidPattern"}

\* C24: a call of graylog_search, graylog_fields, prometheus_query_range or
\* prometheus_metrics that ends in a validation failure has made no backend
\* request and has left both caches exactly as they were.
ValidationComesFirst ==
    [][(opCount' # opCount /\ last'.outcome \in ValidationFailures) =>
           /\ last'.requests = 0
           /\ sent' = sent
           /\ promCache' = promCache
           /\ glCache' = glCache]_vars

\* C24 witness: prometheus_metrics rejected for its pattern while the cache
\* holds the catalog of an earlier call, after a request had been made
ValidationComesFirstWitness ==
    /\ last.op = "prometheus_metrics"
    /\ last.outcome = "InvalidPattern"
    /\ MetricsKey \in Stored(promCache)
    /\ sent # << >>

\* C28: a prometheus_query_range call whose end lies after the time of the
\* call is answered by the backend and stores nothing under its key.
FutureRangeNeverCached ==
    (/\ last.op = "prometheus_query_range"
     /\ last.outcome = "ok"
     /\ PromParseBound(last.args[2], last.at).secs > last.at) =>
        /\ last.requests = 1
        /\ RangeKey(<<"u", "p">>, last.args[1], last.args[2], NoStep) \notin Stored(promCache)

----------------------------------------------------------------------------
(* server.py: OverwatchMCPServer.  initialize_clients creates a client for  *)
(* each enabled datasource and checks its health; list_tools and call_tool  *)
(* are the handlers register_tools installs.  What a tool function does     *)
(* when the handler invokes it - return a result or raise an OverwatchError *)
(* - is an input of the call.  Texts are sequences of characters.           *)

Datasources == {"graylog", "prometheus", "influxdb"}

\* _list_graylog_tools, _list_prometheus_tools, _list_influxdb_tools
ToolList(d) ==
    CASE d = "graylog" -> <<"graylog_search", "graylog_fields">>
      [] d = "prometheus" -> <<"prometheus_query", "prometheus_query_range", "prometheus_metrics">>
      [] d = "influxdb" -> <<"influxdb_query">>

\* the name get_cache is called with by the handler of a datasource
CacheNameOf(d) ==
    CASE d = "graylog" -> "graylog_fields"
      [] d = "prometheus" -> "prometheus_metrics"
      [] d = "influxdb" -> "influxdb"

\* the keys of arguments the handler reads with arguments[...]
RequiredArguments(name) ==
    CASE name \in {"graylog_search", "prometheus_query"} -> {"query"}
      [] name = "prometheus_query_range" -> {"query", "start", "end"}
      [] name = "influxdb_query" -> {"query", "bucket"}
      [] OTHER -> {}

\* what initialize_clients meets for one datasource: it is not enabled, the
\* client's constructor raises, health_check returns False or raises, or
\* health_check returns True
SetupOutcomes == {"disabled", "construct_fails", "unhealthy", "health_raises", "healthy"}

\* OverwatchMCPServer.__init__
NewServer ==
    [phase |-> "created", clients |-> [d \in Datasources |-> FALSE],
     datasource_available |-> EmptyStore]

\* initialize_clients: the client is assigned before its health is checked;
\* RuntimeError when no datasource is available
InitializeClients(setup) ==
    LET enabled == {d \in Datasources : setup[d] # "disabled"}
        available == [d \in enabled |-> setup[d] = "healthy"]
    IN [phase |-> IF \E d \in enabled : available[d] THEN "running" ELSE "failed",
        clients |-> [d \in Datasources |-> setup[d] \in {"unhealthy", "health_raises", "healthy"}],
        datasource_available |-> available]

\* self.datasource_available.get(d, False)
IsAvailable(srv, d) == d \in DOMAIN srv.datasource_available /\ srv.datasource_available[d]

\* list_tools
ListTools(srv) ==
    (IF srv.clients["graylog"] THEN ToolList("graylog") ELSE << >>)
        \o (IF srv.clients["prometheus"] THEN ToolList("prometheus") ELSE << >>)
        \o (IF srv.clients["influxdb"] THEN ToolList("influxdb") ELSE << >>)

\* OverwatchError(code, message, details): details or {}
OverwatchError(code, message, details) == [code |-> code, message |-> message, details |-> details]

\* "Upstream server error after 3 retries" (clients/base.py:141)
ServerErrorMessage ==
    <<"U", "p", "s", "t", "r", "e", "a", "m", " ", "s", "e", "r", "v", "e",
      "r", " ", "e", "r", "r", "o", "r", " ", "a", "f", "t", "e", "r", " ",
      "3", " ", "r", "e", "t", "r", "i", "e", "s">>
\* "Request timed out after 30s" (clients/base.py:155)
TimeoutMessage ==
    <<"R", "e", "q", "u", "e", "s", "t", " ", "t", "i", "m", "e", "d", " ",
      "o", "u", "t", " ", "a", "f", "t", "e", "r", " ", "3", "0", "s">>
\* "server error"
ServerErrorText == <<"s", "e", "r", "v", "e", "r", " ", "e", "r", "r", "o",
                     "r">>

ToolErrors ==
    {OverwatchError("UPSTREAM_SERVER_ERROR", ServerErrorMessage,
                    DictValue(<< <<"status_code", IntValue(500)>> >>)),
     OverwatchError("UPSTREAM_TIMEOUT", TimeoutMessage,
                    DictValue(<< <<"timeout_seconds", IntValue(30)>> >>)),
     OverwatchError("INVALID_QUERY", ServerErrorText, DictValue(<< >>))}

ToolReturns(result) == [kind |-> "returns", result |-> result, error |-> None]
ToolRaises(e) == [kind |-> "raises", result |-> None, error |-> e]

\* TextContent(type="text", text=...)
TextContent(text) == [type |-> "text", text |-> text]

\* what call_tool does: return a list of content, or let an exception out
Returned(content) == [kind |-> "returned", content |-> content, exception |-> "none"]
Escaped(exception) == [kind |-> "raised", content |-> << >>, exception |-> exception]

\* f"Error: {error_msg}", f"Unexpected error: {str(e)}", f"Unknown tool: {name}"
ErrorText(message) == [kind |-> "error", chars |-> <<"E", "r", "r", "o", "r", ":", " ">> \o message]
UnexpectedText(exception) == [kind |-> "unexpected", exception |-> exception]
UnknownToolText(name) == [kind |-> "unknown_tool", name |-> name]

\* json.dumps(result, indent=2)
JsonText(result) == [kind |-> "json", value |-> result]

\* "<Datasource> datasource is not available"
NotAvailableMessage(d) ==
    (CASE d = "graylog" -> <<"G", "r", "a", "y", "l", "o", "g">>
       [] d = "prometheus" -> <<"P", "r", "o", "m", "e", "t", "h", "e", "u", "s">>
       [] d = "influxdb" -> <<"I", "n", "f", "l", "u", "x", "D", "B">>)
        \o <<" ", "d", "a", "t", "a", "s", "o", "u", "r", "c", "e", " ", "i",
             "s", " ", "n", "o", "t", " ", "a", "v", "a", "i", "l", "a", "b",
             "l", "e">>

\* the except OverwatchError clause of _call_graylog_tool, lines 273-283:
\* line 280 uses the module re, which server.py does not import, so
\* evaluating re.search raises NameError inside the handler
GraylogErrorContent(e, arguments) ==
    LET query == IF "query" \in DOMAIN arguments THEN arguments.query ELSE << >>
    IN IF /\ IsSubstring(ServerErrorText, LowerQuery(e.message))
          /\ ~Falsy(e.details)
          /\ \E i \in 1..Len(query) : query[i] = "*"
       THEN Escaped("NameError")
       ELSE Returned(<<TextContent(ErrorText(e.message))>>)

\* _call_graylog_tool, _call_prometheus_tool, _call_influxdb_tool for the
\* tools of datasource d
CallDatasourceTool(srv, d, name, arguments, behaviour) ==
    IF ~IsAvailable(srv, d)
    THEN Returned(<<TextContent(ErrorText(NotAvailableMessage(d)))>>)
    ELSE IF ~(RequiredArguments(name) \subseteq DOMAIN arguments)
    THEN Returned(<<TextContent(UnexpectedText("KeyError"))>>)
    ELSE IF behaviour.kind = "returns"
    THEN Returned(<<TextContent(JsonText(behaviour.result))>>)
    ELSE IF d = "graylog"
    THEN GraylogErrorContent(behaviour.error, arguments)
    ELSE Returned(<<TextContent(ErrorText(behaviour.error.message))>>)

\* the datasource whose handler call_tool hands name to, if any
HandlerOf(name) ==
    IF \E d \in Datasources : \E i \in 1..Len(ToolList(d)) : ToolList(d)[i] = name
    THEN CHOOSE d \in Datasources : \E i \in 1..Len(ToolList(d)) : ToolList(d)[i] = name
    ELSE "none"

\* call_tool(name, arguments)
CallTool(srv, name, arguments, behaviour) ==
    IF HandlerOf(name) = "none"
    THEN Returned(<<TextContent(UnknownToolText(name))>>)
    ELSE CallDatasourceTool(srv, HandlerOf(name), name, arguments, behaviour)

\* the handler reaches cache_manager.get_cache
ReachesGetCache(srv, name) == HandlerOf(name) # "none" /\ IsAvailable(srv, HandlerOf(name))

----------------------------------------------------------------------------
(* SpecServer: a server is initialized against datasources in every state  *)
(* of health, and its list_tools and call_tool handlers are called.         *)

ServerToolNames ==
    {"graylog_search", "graylog_fields", "prometheus_query", "prometheus_query_range",
     "prometheus_metrics", "influxdb_query", "no_such_tool"}

ServerQueries == {<<"e", "r", "r">>, <<"a", ":", "*", "b">>, <<"*">>}

ServerArguments ==
    {[query |-> q, start |-> RelText(1, "h"), end |-> NowText, bucket |-> <<"t">>] :
        q \in ServerQueries}
        \cup {[limit |-> 1]}

ToolBehaviours == {ToolReturns(ResultValue(1))} \cup {ToolRaises(e) : e \in ToolErrors}

InitServer ==
    /\ now = 0
    /\ opCount = 0
    /\ last = NoCall
    /\ server = NewServer
    /\ pending = << >>
    /\ mgr = [default_ttl |-> MgrDefaultTTL, ttl_overrides |-> EmptyStore, caches |-> EmptyStore]
    /\ heap = << >>
    /\ returned = EmptyStore
    /\ mlive = EmptyStore
    /\ CacheIdle
    /\ ToolsIdle

ServerInitialize ==
    \E setup \in [Datasources -> SetupOutcomes] :
        /\ server.phase = "created"
        /\ server' = InitializeClients(setup)
        /\ last' = [op |-> "initialize_clients", setup |-> setup]
        /\ UNCHANGED <<now, opCount, pending, cacheVars, mgrVars, toolVars, backendVars, req>>

ServerListTools ==
    /\ server.phase = "running"
    /\ opCount < ServerMaxCalls
    /\ opCount' = opCount + 1
    /\ last' = [op |-> "list_tools", tools |-> ListTools(server)]
    /\ UNCHANGED <<now, serverVars, cacheVars, mgrVars, toolVars, backendVars, req>>

ServerCallTool ==
    \E name \in ServerToolNames, arguments \in ServerArguments, behaviour \in ToolBehaviours :
        LET got == GetCache(mgr, heap, CacheNameOf(HandlerOf(name)))
        IN /\ server.phase = "running"
           /\ opCount < ServerMaxCalls
           /\ opCount' = opCount + 1
           /\ mgr' = IF ReachesGetCache(server, name) THEN got[1] ELSE mgr
           /\ heap' = IF ReachesGetCache(server, name) THEN got[2] ELSE heap
           /\ last' = [op |-> "call_tool", name |-> name, arguments |-> arguments,
                       invoked |-> /\ ReachesGetCache(server, name)
                                   /\ RequiredArguments(name) \subseteq DOMAIN arguments,
                       behaviour |-> behaviour,
                       outcome |-> CallTool(server, name, arguments, behaviour)]
           /\ UNCHANGED <<now, returned, mlive, serverVars, cacheVars, toolVars,
                          backendVars, req>>

NextServer ==
    \/ ServerInitialize
    \/ ServerListTools
    \/ ServerCallTool

SpecServer == InitServer /\ [][NextServer]_vars

\* C25: every call of call_tool returns a list of text content; no
\* exception leaves it, whatever the tool name, the arguments and the
\* outcome of the tool.
CallToolAlwaysReturns ==
    last.op = "call_tool" =>
        /\ last.outcome.kind = "returned"
        /\ Len(last.outcome.content) >= 1
        /\ \A i \in 1..Len(last.outcome.content) : last.outcome.content[i].type = "text"

\* the uniform error payload {error: {code, message, details}}
ErrorPayload(e) ==
    [error |-> [code |-> e.code, message |-> e.message, details |-> e.details]]

\* C26: when the tool a call invoked raised an OverwatchError, the caller
\* of call_tool gets the error payload {error: {code, message, details}}
\* with the code, the message and the details of that error.
ErrorReachesCallerWhole ==
    (last.op = "call_tool" /\ last.invoked /\ last.behaviour.kind = "raises") =>
        /\ last.outcome.kind = "returned"
        /\ last.outcome.content = <<TextContent(JsonText(ErrorPayload(last.behaviour.error)))>>

\* C27: list_tools offers exactly the tools of the datasources whose health
\* check succeeded.
OnlyHealthyToolsListed ==
    last.op = "list_tools" =>
        {last.tools[i] : i \in 1..Len(last.tools)} =
            UNION {{ToolList(d)[i] : i \in 1..Len(ToolList(d))} :
                      d \in {e \in Datasources : IsAvailable(server, e)}}

----------------------------------------------------------------------------
(* SpecOverlap: invocations of prometheus_metrics, graylog_fields and       *)
(* prometheus_query_range with one absolute range run on one event loop.    *)
(* An invocation runs up to its await of the backend in one step and from   *)
(* the backend's answer to its return in another; other invocations start   *)
(* and finish in between.  The clock stays within the TTL of the caches.    *)

OverlapTools == {"prometheus_metrics", "graylog_fields", "prometheus_query_range"}

OverlapRange == <<<<"u", "p">>, UnixText(TimeBase - 3600), UnixText(TimeBase), NoStep>>
OverlapLimit == 2

\* the backend has not answered yet
Awaited == BackendError("awaiting")

AnswersFor(tool) ==
    CASE tool = "prometheus_metrics" -> MetricsBackends
      [] tool = "graylog_fields" -> FieldsBackends
      [] tool = "prometheus_query_range" -> RangeBackends

\* the cache key of an invocation and the cache it is kept in
KeyOf(tool) ==
    CASE tool = "prometheus_metrics" -> MetricsKey
      [] tool = "graylog_fields" -> FieldsKey
      [] tool = "prometheus_query_range" ->
             RangeKey(OverlapRange[1], OverlapRange[2], OverlapRange[3], OverlapRange[4])

CacheOf(tool) == IF tool = "graylog_fields" THEN glCache ELSE promCache

\* the tool up to its await of the backend, at time t: a call that returns
\* or raises before it makes a request has requests = 0
BeforeFetch(tool, t) ==
    CASE tool = "prometheus_metrics" ->
             MetricsCall(promCache, NoPattern, OverlapLimit, Awaited, t)
      [] tool = "graylog_fields" ->
             FieldsCall(glCache, NoPattern, OverlapLimit, Awaited, t)
      [] tool = "prometheus_query_range" ->
             RangeCall(promCache, OverlapRange[1], OverlapRange[2], OverlapRange[3],
                       OverlapRange[4], PromMaxRangeHours, Awaited, t, t)

\* the tool from the backend's answer on, at time t
AfterFetch(tool, backend, t) ==
    CASE tool = "prometheus_metrics" ->
             MetricsAfterFetch(promCache, NoPattern, OverlapLimit, backend, t)
      [] tool = "graylog_fields" ->
             FieldsAfterFetch(glCache, NoPattern, OverlapLimit, backend, t)
      [] tool = "prometheus_query_range" ->
             RangeAfterFetch(promCache, OverlapRange[1], OverlapRange[2], OverlapRange[3],
                             OverlapRange[4], backend, t)

RequestOf(tool) ==
    IF tool = "prometheus_query_range"
    THEN PromRangeRequest(OverlapRange[1], OverlapRange[2], OverlapRange[3], OverlapRange[4])
    ELSE [kind |-> "get", tool |-> tool]

\* an invocation: missed tells whether its key was absent when it started,
\* answer is what the backend answered it, order its place among the
\* invocations that the backend has answered
Invocation(tool, missed, r) ==
    [tool |-> tool, missed |-> missed,
     phase |-> IF r.requests = 0 THEN "done" ELSE "awaiting",
     outcome |-> r.outcome, requests |-> r.requests, result |-> r.result,
     answer |-> None, order |-> 0]

Answered == {i \in 1..Len(pending) : pending[i].order > 0}

InitOverlap ==
    /\ now = TimeBase
    /\ opCount = 0
    /\ last = NoCall
    /\ promCache = NewCache(OverlapTTL, DefaultMaxSize)
    /\ glCache = NewCache(OverlapTTL, DefaultMaxSize)
    /\ hist = EmptyStore
    /\ allowed = << >>
    /\ sent = << >>
    /\ req = NoHttpCall
    /\ server = NoServer
    /\ pending = << >>
    /\ CacheIdle
    /\ ManagerIdle

OverlapTick ==
    /\ now < TimeBase + OverlapMaxTime
    /\ now' = now + 1
    /\ UNCHANGED AllButNow

OverlapStart ==
    \E tool \in OverlapTools :
        LET r == BeforeFetch(tool, now)
        IN /\ Len(pending) < OverlapCalls
           /\ pending' = Append(pending,
                                Invocation(tool, ~Contains(CacheOf(tool), KeyOf(tool), now), r))
           /\ promCache' = IF tool = "graylog_fields" THEN promCache ELSE r.cache
           /\ glCache' = IF tool = "graylog_fields" THEN r.cache ELSE glCache
           /\ sent' = IF r.requests = 1 THEN Append(sent, RequestOf(tool)) ELSE sent
           /\ last' = [op |-> "start", tool |-> tool]
           /\ UNCHANGED <<now, opCount, allowed, hist, server, cacheVars, mgrVars, req>>

OverlapComplete ==
    \E i \in 1..Len(pending) :
        \E backend \in AnswersFor(pending[i].tool) :
            LET tool == pending[i].tool
                r == AfterFetch(tool, backend, now)
            IN /\ pending[i].phase = "awaiting"
               /\ pending' = [pending EXCEPT ![i] =
                                 [@ EXCEPT !.phase = "done", !.outcome = r.outcome,
                                           !.result = r.result, !.answer = backend,
                                           !.order = Cardinality(Answered) + 1]]
               /\ promCache' = IF tool = "graylog_fields" THEN promCache ELSE r.cache
               /\ glCache' = IF tool = "graylog_fields" THEN r.cache ELSE glCache
               /\ last' = [op |-> "complete", tool |-> tool]
               /\ UNCHANGED <<now, opCount, allowed, sent, hist, server, cacheVars, mgrVars,
                              req>>

NextOverlap ==
    \/ OverlapTick
    \/ OverlapStart
    \/ OverlapComplete

SpecOverlap == InitOverlap /\ [][NextOverlap]_vars

\* the invocations of tool whose backend answer was a payload, and what
\* each of them wrote to the cache
Fetched(tool) ==
    {i \in Answered : pending[i].tool = tool /\ pending[i].answer.outcome = "ok"}

Written(inv) ==
    IF inv.tool = "graylog_fields" THEN FieldsOf(inv.answer.data) ELSE inv.answer.data

\* the response of inv is built from the payload the backend gave to source
BuiltFrom(inv, source) ==
    CASE inv.tool = "prometheus_metrics" ->
             \E was_cached \in BOOLEAN :
                 inv.result = MetricsResponse(source.answer.data, NoPattern, OverlapLimit,
                                              was_cached)
      [] inv.tool = "graylog_fields" ->
             \E was_cached \in BOOLEAN :
                 inv.result = FieldsResponse(FieldsOf(source.answer.data), NoPattern,
                                             OverlapLimit, was_cached)
      [] inv.tool = "prometheus_query_range" -> inv.result = source.answer.data

\* C21: overlapping invocations are not coalesced: every invocation that
\* found its key absent made its own backend request; once no invocation
\* is awaiting the backend, each key holds what the invocation the backend
\* answered last wrote; and every response is built from a payload that
\* the backend gave to an invocation of that tool.
NoCoalescing ==
    /\ \A i \in 1..Len(pending) : pending[i].missed => pending[i].requests = 1
    /\ Len(sent) = Cardinality({i \in 1..Len(pending) : pending[i].requests = 1})
    /\ (\A i \in 1..Len(pending) : pending[i].phase = "done") =>
           \A tool \in OverlapTools :
               Fetched(tool) # {} =>
                   LET latest == CHOOSE i \in Fetched(tool) :
                                     \A j \in Fetched(tool) : pending[j].order <= pending[i].order
                   IN /\ KeyOf(tool) \in Stored(CacheOf(tool))
                      /\ CacheOf(tool).store[KeyOf(tool)].value = Written(pending[latest])
    /\ \A i \in 1..Len(pending) :
           (pending[i].phase = "done" /\ pending[i].outcome = "ok") =>
               \E j \in Fetched(pending[i].tool) : BuiltFrom(pending[i], pending[j])

\* C21 witness: two invocations of one tool that both found the key absent
\* and got different payloads, the one started first answered last; the
\* cache holds the payload of the one started first
NoCoalescingWitness ==
    \E i, j \in 1..Len(pending) :
        /\ i < j
        /\ \A k \in 1..Len(pending) : pending[k].phase = "done"
        /\ pending[i].tool = pending[j].tool
        /\ pending[i].missed /\ pending[j].missed
        /\ pending[i].outcome = "ok" /\ pending[j].outcome = "ok"
        /\ pending[i].answer # pending[j].answer
        /\ pending[i].order > pending[j].order
        /\ CacheOf(pending[i].tool).store[KeyOf(pending[i].tool)].value = Written(pending[i])

====
